---- MODULE Spec2Model ----
(***************************************************************************)
(* Model of the flutter-deadline GitHub Action: the @Deadline annotation   *)
(* scanner (parser.ts), the blame enrichment (blame.ts), the date-window   *)
(* filter and the Slack message composer (slack.ts) and the run() pipeline *)
(* (index.ts).                                                             *)
(*                                                                         *)
(* Strings are sequences of tokens.  A token is a single character such as *)
(* "/" or "(", or an atom standing for a fixed run of word characters such *)
(* as "@Deadline" or "year".  JavaScript's undefined is the value          *)
(* `undefined`, which is different from every string.                      *)
(* Times are counted in hours since the epoch (every UTC offset used is a  *)
(* whole number of hours), a calendar date is its day number since         *)
(* 1970-01-01.                                                             *)
(***************************************************************************)
EXTENDS Integers, Sequences, FiniteSets, TLC

VARIABLES
    pc,                   \* position of the process inside run() / the function under study
    config,               \* ActionConfig built by getConfig()
    today,                \* `today` of run(): [day, hour] in local time
    tz,                   \* the time zone of the process (environment of Date)
    allAnnotations,       \* run(): allAnnotations
    filteredAnnotations,  \* run(): filteredAnnotations
    message,              \* run(): message, the SlackMessage built for delivery
    ret,                  \* return value of a helper called on its own
    content,              \* parseDartFile(): content, the text read from the file
    lastIndex,            \* DEADLINE_PATTERN.lastIndex, state of the module-level pattern
    result,               \* parseDartFile(): result, [annotations, errors]
    source,               \* the file on disk: [readable, segs], segs the pieces of its text
    dartFiles,            \* run(): dartFiles, the paths found by findDartFiles
    fileIdx,              \* run(): number of files the for loop has been through
    totalErrors,          \* run(): totalErrors
    readLog,              \* for each file the loop has been through, whether it was readable
    outputs,              \* what core.setOutput was given
    requests,             \* the requests issued to Slack, in order
    failed,               \* what core.setFailed was given, undefined while it was not called
    summaryWritten,       \* core.summary...write() was called
    response,             \* what fetch gave for the request, NoResponse while there is none
    sentLogged,           \* core.info('Slack notification sent successfully ...') was called
    created,              \* the records as parseDartFile created them, in order
    blameLog              \* what git blame gave for each record, in order

parseVars == <<content, lastIndex, result, source>>
ioVars == <<dartFiles, fileIdx, totalErrors, readLog, outputs, requests, failed, summaryWritten,
            response, sentLogged, created, blameLog>>
vars == <<pc, config, today, tz, allAnnotations, filteredAnnotations, message, ret, parseVars,
          ioVars>>


-----------------------------------------------------------------------------
(* Bounds *)

MaxFilterAnn == 2         \* records handed to the filter
MaxWindow == 1            \* largest notify_days_before
MaxMsgAnn == 7            \* records handed to buildSlackMessage
MaxTplSegs == 2           \* pieces a custom template is made of
MaxTplAnn == 2            \* records handed to buildCustomSlackMessage
MaxSegs == 3              \* pieces a scanned document is made of
MaxFiles == 2             \* files findDartFiles returns
MaxStatusDay == 20        \* last day of March 2025 a status line is built for
MaxMemberDay == 2         \* days of the annotations inside an annotated declaration
MaxNesting == 2           \* brace pairs nested inside a declaration's body

-----------------------------------------------------------------------------
(* JavaScript values *)

undefined == <<"#undefined">>

Truthy(s) == s # undefined /\ s # <<>>

\* no file is being parsed
NoFile == [readable |-> FALSE, segs |-> <<>>]
ParseIdle == content = undefined /\ lastIndex = 0 /\ result = undefined /\ source = NoFile

NoOutputs == [set |-> FALSE, total_annotations |-> 0, filtered_annotations |-> 0,
              annotations_json |-> <<>>]

\* fetch has not settled
NoResponse == [rejected |-> FALSE, status |-> 0, text |-> <<>>, dataOk |-> FALSE, dataError |-> <<>>]

\* run() has not touched the file system, the outputs or Slack
RunIdle ==
    /\ dartFiles = <<>> /\ fileIdx = 0 /\ totalErrors = 0 /\ readLog = <<>>
    /\ outputs = NoOutputs /\ requests = <<>> /\ failed = undefined /\ summaryWritten = FALSE
    /\ response = NoResponse /\ sentLogged = FALSE
    /\ created = <<>> /\ blameLog = <<>>

RECURSIVE SeqsUpTo(_, _)
SeqsUpTo(S, n) ==
    IF n = 0 THEN {<<>>}
    ELSE LET shorter == SeqsUpTo(S, n - 1)
         IN  shorter \cup {Append(s, x) : s \in {t \in shorter : Len(t) = n - 1}, x \in S}

-----------------------------------------------------------------------------
(* Date: local calendar arithmetic *)

\* day number of the civil date y-m-d (proleptic Gregorian calendar)
DaysFromCivil(y, m, d) ==
    LET yy  == IF m <= 2 THEN y - 1 ELSE y
        era == yy \div 400
        yoe == yy - era * 400
        mp  == IF m > 2 THEN m - 3 ELSE m + 9
        doy == (153 * mp + 2) \div 5 + d - 1
        doe == yoe * 365 + yoe \div 4 - yoe \div 100 + doy
    IN  era * 146097 + doe - 719468

\* new Date(year, monthIndex, day): out-of-range months and days carry over,
\* years 0..99 mean 1900..1999
NewDate(year, monthIndex, day) ==
    LET y0 == IF year >= 0 /\ year <= 99 THEN 1900 + year ELSE year
        y  == y0 + monthIndex \div 12
        m  == monthIndex % 12
    IN  [day |-> DaysFromCivil(y, m + 1, 1) + day - 1, hour |-> 0]

DstStart2025 == DaysFromCivil(2025, 3, 9)
DstEnd2025 == DaysFromCivil(2025, 11, 2)

TimeZones == {"UTC", "America/New_York"}

\* UTC offset in hours that is in force at local midnight of day d
\* (America/New_York changes at 02:00, so the change day itself starts on the old offset)
TzOffset(zone, d) ==
    IF zone = "UTC" THEN 0
    ELSE IF d > DstStart2025 /\ d <= DstEnd2025 THEN -4 ELSE -5

\* new Date(date.getFullYear(), date.getMonth(), date.getDate()).getTime()
MidnightTime(zone, date) == 24 * date.day - TzOffset(zone, date.day)

HoursPerDay == 24

\* Math.floor((deadlineTime - todayTime) / (1000 * 60 * 60 * 24))
getDaysDifference(zone, deadline, now) ==
    (MidnightTime(zone, deadline) - MidnightTime(zone, now)) \div HoursPerDay

-----------------------------------------------------------------------------
(* DeadlineAnnotation records *)

MakeAnnotation(filePath, lineNumber, year, month, day, description, slackMention) ==
    [filePath     |-> filePath,
     lineNumber   |-> lineNumber,
     year         |-> year,
     month        |-> month,
     day          |-> day,
     description  |-> description,
     slackMention |-> slackMention,
     author       |-> undefined,
     authorEmail  |-> undefined,
     codeBlock    |-> <<"class", " ", "OldApi", " ", "{", "}">>,
     elementName  |-> <<"OldApi">>,
     deadlineDate |-> NewDate(year, month - 1, day)]

-----------------------------------------------------------------------------
(* slack.ts: filterAnnotationsByDate *)

\* a filter whose window test excludes the last day of the window
KeepAnnotation_OpenWindow(annotation, cfg, zone, now) ==
    LET daysDiff == getDaysDifference(zone, annotation.deadlineDate, now)
    IN  IF daysDiff >= 0 /\ daysDiff < cfg.notifyDaysBefore THEN TRUE
        ELSE IF daysDiff < 0 /\ cfg.notifyPastDeadlines THEN TRUE
        ELSE FALSE

\* the callback of annotations.filter(...)
KeepAnnotation(annotation, cfg, zone, now) ==
    LET daysDiff == getDaysDifference(zone, annotation.deadlineDate, now)
    IN  IF daysDiff >= 0 /\ daysDiff <= cfg.notifyDaysBefore THEN TRUE
        ELSE IF daysDiff < 0 /\ cfg.notifyPastDeadlines THEN TRUE
        ELSE FALSE

filterAnnotationsByDate(annotations, cfg, zone, now) ==
    LET Keep(a) == KeepAnnotation(a, cfg, zone, now)
    IN  SelectSeq(annotations, Keep)

-----------------------------------------------------------------------------
(* Configuration *)

DefaultConfig ==
    [slackWebhookUrl     |-> <<>>,
     slackBotToken       |-> <<>>,
     slackChannel        |-> <<>>,
     language            |-> "en",
     customTemplate      |-> <<>>,
     repository          |-> <<"owner/repo">>,
     defaultBranch       |-> <<"main">>,
     notifyDaysBefore    |-> 0,
     notifyPastDeadlines |-> FALSE,
     githubToSlackMap    |-> {}]

-----------------------------------------------------------------------------
(* run(): the filter step *)

FilterAnnotations ==
    /\ pc = "filter"
    /\ filteredAnnotations' = filterAnnotationsByDate(allAnnotations, config, tz, today)
    /\ pc' = "outputs"
    /\ UNCHANGED <<config, today, tz, allAnnotations, message, ret, parseVars, ioVars>>

-----------------------------------------------------------------------------
(* The filter applied to arbitrary records, windows and reference dates *)

FilterDeadlines == {<<2025, 3, 8>>, <<2025, 3, 9>>, <<2025, 3, 10>>, <<2025, 11, 2>>}
FilterTodays == {<<2025, 3, 9>>, <<2025, 3, 10>>, <<2025, 4, 8>>, <<2025, 11, 3>>}

FilterRecords ==
    {MakeAnnotation(<<"lib/a.dart">>, 1, t[1], t[2], t[3], undefined, undefined) : t \in FilterDeadlines}

InitFilter ==
    /\ pc = "filter"
    /\ tz \in TimeZones
    /\ today \in {[day |-> DaysFromCivil(t[1], t[2], t[3]), hour |-> h] : t \in FilterTodays, h \in {0, 23}}
    /\ config \in {[DefaultConfig EXCEPT !.notifyDaysBefore = w, !.notifyPastDeadlines = p] :
                      w \in 0..MaxWindow, p \in BOOLEAN}
    /\ allAnnotations \in SeqsUpTo(FilterRecords, MaxFilterAnn)
    /\ filteredAnnotations = <<>>
    /\ message = undefined
    /\ ret = undefined
    /\ ParseIdle
    /\ RunIdle

NextFilter == FilterAnnotations

SpecFilter == InitFilter /\ [][NextFilter]_vars

\* calendar distance in days from the reference date to the record's deadline
CalendarDiff(annotation, now) ==
    DaysFromCivil(annotation.year, annotation.month, annotation.day) - now.day

IsSubSeqAt(sub, full, idx) ==
    /\ Len(idx) = Len(sub)
    /\ \A k \in 1..Len(idx) : idx[k] \in 1..Len(full) /\ sub[k] = full[idx[k]]
    /\ \A k \in 1..(Len(idx) - 1) : idx[k] < idx[k + 1]

\* positions of the input whose dayDiff is inside the window or overdue with past-notification on
RECURSIVE ExpectedKept(_, _, _, _, _)
ExpectedKept(annotations, i, cfg, zone, now) ==
    IF i > Len(annotations) THEN <<>>
    ELSE LET d == getDaysDifference(zone, annotations[i].deadlineDate, now)
             rest == ExpectedKept(annotations, i + 1, cfg, zone, now)
         IN  IF (0 <= d /\ d <= cfg.notifyDaysBefore) \/ (d < 0 /\ cfg.notifyPastDeadlines)
             THEN <<i>> \o rest ELSE rest

-----------------------------------------------------------------------------
(* blame.ts: extractGitHubUsername *)

Digits == {"0", "1", "2", "3", "4", "5", "6", "7", "8", "9"}

NoreplyHost == "users.noreply.github.com"

\* number of leading tokens of s, from position i on, that are in S
RECURSIVE RunLength(_, _, _)
RunLength(s, i, S) ==
    IF i <= Len(s) /\ s[i] \in S THEN 1 + RunLength(s, i + 1, S) ELSE 0

\* position of the first occurrence of token t in s at or after i, 0 when there is none
RECURSIVE IndexOfToken(_, _, _)
IndexOfToken(s, t, i) ==
    IF i > Len(s) THEN 0
    ELSE IF s[i] = t THEN i
    ELSE IndexOfToken(s, t, i + 1)

\* ([^@]+)@users\.noreply\.github\.com$ matched from position i: the capture, or undefined
NoreplyTail(email, i) ==
    LET at == IndexOfToken(email, "@", i)
    IN  IF at > i /\ at = Len(email) - 1 /\ email[Len(email)] = NoreplyHost
        THEN SubSeq(email, i, at - 1)
        ELSE undefined

extractGitHubUsername(email) ==
    LET digits == RunLength(email, 1, Digits)
        noreplyMatch ==
            IF digits >= 1 /\ digits < Len(email) /\ email[digits + 1] = "+"
            THEN NoreplyTail(email, digits + 2)
            ELSE undefined
        oldNoreplyMatch == NoreplyTail(email, 1)
    IN  IF noreplyMatch # undefined THEN noreplyMatch
        ELSE IF oldNoreplyMatch # undefined THEN oldNoreplyMatch
        ELSE undefined

-----------------------------------------------------------------------------
(* slack.ts: resolveSlackMention *)

\* config.githubToSlackMap[key]: the map is a set of <<key, value>> pairs with distinct keys
MapGet(map, key) ==
    IF \E p \in map : p[1] = key
    THEN (CHOOSE p \in map : p[1] = key)[2]
    ELSE undefined

MentionOf(id) == <<"<@">> \o id \o <<">">>

\* a resolver that tries the author name before the author email
resolveSlackMention_NameFirst(annotation, cfg) ==
    LET map == cfg.githubToSlackMap
        githubUsername == extractGitHubUsername(annotation.authorEmail)
    IN  IF Truthy(annotation.slackMention) THEN annotation.slackMention
        ELSE IF Truthy(annotation.author) /\ Truthy(MapGet(map, annotation.author))
        THEN MentionOf(MapGet(map, annotation.author))
        ELSE IF Truthy(annotation.authorEmail) /\ Truthy(githubUsername)
                /\ Truthy(MapGet(map, githubUsername))
        THEN MentionOf(MapGet(map, githubUsername))
        ELSE IF Truthy(annotation.authorEmail) /\ Truthy(MapGet(map, annotation.authorEmail))
        THEN MentionOf(MapGet(map, annotation.authorEmail))
        ELSE undefined

\* config.githubToSlackMap is always an object, so its truth tests are left out
resolveSlackMention(annotation, cfg) ==
    LET map == cfg.githubToSlackMap
        githubUsername ==
            IF Truthy(annotation.authorEmail)
            THEN extractGitHubUsername(annotation.authorEmail) ELSE undefined
    IN  IF Truthy(annotation.slackMention) THEN annotation.slackMention
        ELSE IF Truthy(annotation.authorEmail) /\ Truthy(githubUsername)
                /\ Truthy(MapGet(map, githubUsername))
        THEN MentionOf(MapGet(map, githubUsername))
        ELSE IF Truthy(annotation.authorEmail) /\ Truthy(MapGet(map, annotation.authorEmail))
        THEN MentionOf(MapGet(map, annotation.authorEmail))
        ELSE IF Truthy(annotation.author) /\ Truthy(MapGet(map, annotation.author))
        THEN MentionOf(MapGet(map, annotation.author))
        ELSE undefined

CallResolveSlackMention ==
    /\ pc = "resolveSlackMention"
    /\ ret' = resolveSlackMention(allAnnotations[1], config)
    /\ pc' = "returned"
    /\ UNCHANGED <<config, today, tz, allAnnotations, filteredAnnotations, message, parseVars, ioVars>>

-----------------------------------------------------------------------------
(* resolveSlackMention applied to arbitrary records and maps *)

\* author e-mails, each built from its parts: [email, username], username = undefined
\* when the address is not a GitHub noreply address
MentionEmails ==
    {[email |-> undefined, username |-> undefined],
     [email |-> <<>>, username |-> undefined],
     [email |-> <<"1", "2", "+", "octocat", "@", NoreplyHost>>, username |-> <<"octocat">>],
     [email |-> <<"octocat", "@", NoreplyHost>>, username |-> <<"octocat">>],
     [email |-> <<"mona", "@", "example.com">>, username |-> undefined]}

MentionAuthors == {undefined, <<"Mona">>, <<"octocat">>}

MentionDirectives == {undefined, <<>>, <<"@", "alice">>}

MentionRecords ==
    {[MakeAnnotation(<<"lib/a.dart">>, 1, 2025, 3, 9, undefined, m)
         EXCEPT !.author = au, !.authorEmail = e.email] :
        m \in MentionDirectives, au \in MentionAuthors, e \in MentionEmails}

\* for each key either no entry or one entry; the user name may map to the empty id
MentionMaps ==
    {u \cup e \cup n :
        u \in {{}, {<<<<"octocat">>, <<"U1">>>>}, {<<<<"octocat">>, <<>>>>}},
        e \in {{}, {<<<<"mona", "@", "example.com">>, <<"U2">>>>},
                   {<<<<"octocat", "@", NoreplyHost>>, <<"U4">>>>}},
        n \in {{}, {<<<<"Mona">>, <<"U3">>>>}}}

InitMention ==
    /\ pc = "resolveSlackMention"
    /\ tz = "UTC"
    /\ today = [day |-> DaysFromCivil(2025, 3, 9), hour |-> 0]
    /\ config \in {[DefaultConfig EXCEPT !.githubToSlackMap = m] : m \in MentionMaps}
    /\ allAnnotations \in {<<a>> : a \in MentionRecords}
    /\ filteredAnnotations = <<>>
    /\ message = undefined
    /\ ret = undefined
    /\ ParseIdle
    /\ RunIdle

NextMention == CallResolveSlackMention

SpecMention == InitMention /\ [][NextMention]_vars

UsernameOf(email) == (CHOOSE e \in MentionEmails : e.email = email).username

\* C6: the mention is that of the first alternative that yields one, in the order
\* explicit slackMention, noreply user name in the map, raw e-mail in the map,
\* author name in the map, none.
C6_MentionOrder ==
    pc = "returned" =>
        LET a == allAnnotations[1]
            map == config.githubToSlackMap
            user == UsernameOf(a.authorEmail)
            alternatives ==
                <<a.slackMention,
                  IF user # undefined /\ Truthy(MapGet(map, user))
                      THEN MentionOf(MapGet(map, user)) ELSE undefined,
                  IF Truthy(a.authorEmail) /\ Truthy(MapGet(map, a.authorEmail))
                      THEN MentionOf(MapGet(map, a.authorEmail)) ELSE undefined,
                  IF Truthy(a.author) /\ Truthy(MapGet(map, a.author))
                      THEN MentionOf(MapGet(map, a.author)) ELSE undefined>>
            yielding == {k \in 1..4 : Truthy(alternatives[k])}
        IN  IF yielding = {} THEN ret = undefined
            ELSE ret = alternatives[CHOOSE k \in yielding : \A j \in yielding : k <= j]

\* no explicit mention, and the user name, the raw e-mail and the author name are all
\* in the map: the user name's id is the one used
C6_Witness ==
    /\ pc = "returned"
    /\ ~Truthy(allAnnotations[1].slackMention)
    /\ allAnnotations[1].authorEmail = <<"octocat", "@", NoreplyHost>>
    /\ allAnnotations[1].author = <<"Mona">>
    /\ MapGet(config.githubToSlackMap, <<"octocat">>) = <<"U1">>
    /\ MapGet(config.githubToSlackMap, <<"octocat", "@", NoreplyHost>>) = <<"U4">>
    /\ MapGet(config.githubToSlackMap, <<"Mona">>) = <<"U3">>
    /\ ret = MentionOf(<<"U1">>)

-----------------------------------------------------------------------------
(* Number and date formatting *)

RECURSIVE NatToString(_)
NatToString(n) ==
    LET digit == <<"0", "1", "2", "3", "4", "5", "6", "7", "8", "9">>[(n % 10) + 1]
    IN  IF n < 10 THEN <<digit>> ELSE Append(NatToString(n \div 10), digit)

\* String(n)
StringOf(n) == IF n < 0 THEN <<"-">> \o NatToString(-n) ELSE NatToString(n)

\* String.prototype.padLeft = padStart
RECURSIVE padLeft(_, _, _)
padLeft(str, length, char) ==
    IF Len(str) >= length THEN str ELSE padLeft(<<char>> \o str, length, char)

\* getFullYear(), getMonth() + 1 and getDate() of a local date
CivilFromDays(z) ==
    LET zz  == z + 719468
        era == zz \div 146097
        doe == zz - era * 146097
        yoe == (doe - doe \div 1460 + doe \div 36524 - doe \div 146096) \div 365
        doy == doe - (365 * yoe + yoe \div 4 - yoe \div 100)
        mp  == (5 * doy + 2) \div 153
        d   == doy - (153 * mp + 2) \div 5 + 1
        m   == IF mp < 10 THEN mp + 3 ELSE mp - 9
        y   == yoe + era * 400 + (IF m <= 2 THEN 1 ELSE 0)
    IN  [year |-> y, month |-> m, date |-> d]

\* a formatDate that prints getMonth() as it is, the index of the month from 0
formatDate_MonthIndex(date) ==
    LET c == CivilFromDays(date.day)
    IN  StringOf(c.year) \o <<"-">> \o padLeft(StringOf(c.month - 1), 2, "0")
            \o <<"-">> \o padLeft(StringOf(c.date), 2, "0")

formatDate(date) ==
    LET c == CivilFromDays(date.day)
    IN  StringOf(c.year) \o <<"-">> \o padLeft(StringOf(c.month), 2, "0")
            \o <<"-">> \o padLeft(StringOf(c.date), 2, "0")

\* example.dart, class Deadline: the getter formattedDate of Deadline(year, month, day);
\* int.toString() and String.padLeft(2, '0')
formattedDate(year, month, day) ==
    StringOf(year) \o <<"-">> \o padLeft(StringOf(month), 2, "0")
        \o <<"-">> \o padLeft(StringOf(day), 2, "0")

-----------------------------------------------------------------------------
(* slack.ts: the default layout *)

\* MESSAGES[language][key]; a phrase with a number is the phrase followed by the number
MESSAGES(language, key) ==
    IF key = "title" THEN <<":warning:", " ", language, key>> ELSE <<language, key>>

EmojiTokens == {":warning:", ":rotating_light:", ":alarm_clock:", ":calendar:", ":white_check_mark:"}

\* msg.title.replace(/:[^:]+:/g, '').trim()
HeaderTitle(language) ==
    LET IsText(t) == t \notin EmojiTokens
        stripped == SelectSeq(MESSAGES(language, "title"), IsText)
    IN  IF stripped # <<>> /\ stripped[1] = " " THEN Tail(stripped) ELSE stripped

getGitHubUrl(repository, defaultBranch, filePath, lineNumber) ==
    LET cleanPath ==
            IF Len(filePath) >= 2 /\ filePath[1] = "." /\ filePath[2] = "/"
            THEN SubSeq(filePath, 3, Len(filePath)) ELSE filePath
    IN  <<"https://github.com/">> \o repository \o <<"/blob/">> \o defaultBranch
            \o <<"/">> \o cleanPath \o <<"#L">> \o StringOf(lineNumber)

\* a marker that does not tell a far deadline from a near one
getStatusEmoji_NoFuture(daysDiff) ==
    IF daysDiff < 0 THEN ":rotating_light:"
    ELSE IF daysDiff = 0 THEN ":alarm_clock:"
    ELSE ":warning:"

getStatusEmoji(daysDiff) ==
    IF daysDiff < 0 THEN ":rotating_light:"
    ELSE IF daysDiff = 0 THEN ":alarm_clock:"
    ELSE IF daysDiff <= 3 THEN ":warning:"
    ELSE ":calendar:"

SectionText(text) == [type |-> "section", text |-> text, fields |-> undefined]
SectionFields(fields) == [type |-> "section", text |-> undefined, fields |-> fields]
Divider == [type |-> "divider", text |-> undefined, fields |-> undefined]
Header(text) == [type |-> "header", text |-> text, fields |-> undefined]

buildAnnotationBlocks(annotation, cfg, zone, now) ==
    LET lang == cfg.language
        daysDiff == getDaysDifference(zone, annotation.deadlineDate, now)
        statusEmoji == getStatusEmoji(daysDiff)
        statusText ==
            IF daysDiff < 0
            THEN MESSAGES(lang, "deadlinePassed") \o <<"(">>
                     \o MESSAGES(lang, "daysOverdue") \o StringOf(-daysDiff) \o <<")">>
            ELSE IF daysDiff = 0 THEN MESSAGES(lang, "deadlineReached")
            ELSE MESSAGES(lang, "deadlineApproaching") \o <<"(">>
                     \o MESSAGES(lang, "daysRemaining") \o StringOf(daysDiff) \o <<")">>
        githubUrl == getGitHubUrl(cfg.repository, cfg.defaultBranch,
                                  annotation.filePath, annotation.lineNumber)
        mention == resolveSlackMention(annotation, cfg)
        authorLink ==
            IF Truthy(annotation.author)
            THEN <<"<https://github.com/">> \o annotation.author \o <<"|">>
                     \o annotation.author \o <<">">>
            ELSE <<"Unknown">>
        fileLink == <<"<">> \o githubUrl \o <<"|">> \o annotation.filePath \o <<">">>
    IN  <<SectionText(<<statusEmoji, "*">> \o statusText \o <<"*">>
                          \o (IF Truthy(mention) THEN <<" ">> \o mention ELSE <<>>)),
          SectionFields(<<MESSAGES(lang, "element") \o annotation.elementName,
                          MESSAGES(lang, "deadline") \o formatDate(annotation.deadlineDate)>>),
          SectionFields(<<MESSAGES(lang, "file") \o fileLink \o MESSAGES(lang, "line")
                              \o StringOf(annotation.lineNumber),
                          MESSAGES(lang, "author") \o authorLink>>)>>
        \o (IF Truthy(annotation.description)
            THEN <<SectionText(MESSAGES(lang, "description") \o annotation.description)>>
            ELSE <<>>)
        \o <<Divider>>

MAX_BLOCKS == 30

\* a loop that passes over a group that does not fit and goes on with the next record
RECURSIVE DisplayLoop_SkipAndContinue(_, _, _, _, _, _)
DisplayLoop_SkipAndContinue(annotations, i, blocks, cfg, zone, now) ==
    IF i > Len(annotations)
    THEN [blocks |-> blocks,
          displayedCount |-> Cardinality({k \in 1..Len(blocks) :
                                 blocks[k].type = "section" /\ blocks[k].text # undefined
                                     /\ blocks[k].text[1] \in {":rotating_light:", ":alarm_clock:",
                                                                ":warning:", ":calendar:"}})]
    ELSE LET annotationBlocks == buildAnnotationBlocks(annotations[i], cfg, zone, now)
         IN  IF Len(blocks) + Len(annotationBlocks) > MAX_BLOCKS
             THEN DisplayLoop_SkipAndContinue(annotations, i + 1, blocks, cfg, zone, now)
             ELSE DisplayLoop_SkipAndContinue(annotations, i + 1, blocks \o annotationBlocks,
                                              cfg, zone, now)

\* the loop over the records: [blocks, displayedCount] when the loop is left
RECURSIVE DisplayLoop(_, _, _, _, _, _)
DisplayLoop(annotations, i, blocks, cfg, zone, now) ==
    IF i > Len(annotations) THEN [blocks |-> blocks, displayedCount |-> i - 1]
    ELSE LET annotationBlocks == buildAnnotationBlocks(annotations[i], cfg, zone, now)
         IN  IF Len(blocks) + Len(annotationBlocks) > MAX_BLOCKS
             THEN [blocks |-> blocks, displayedCount |-> i - 1]
             ELSE DisplayLoop(annotations, i + 1, blocks \o annotationBlocks, cfg, zone, now)

TruncationNotice(language, remainingCount) ==
    IF language = "ja"
    THEN SectionText(<<"...", "ja:other">> \o StringOf(remainingCount) \o <<"ja:more">>)
    ELSE SectionText(<<"...", "and">> \o StringOf(remainingCount) \o <<"more deadline(s)">>)

\* a composer that never appends the notice
buildSlackMessage_NoNotice(annotations, cfg, zone, now) ==
    LET lang == cfg.language
        shown == DisplayLoop(annotations, 1,
                     <<Header(HeaderTitle(lang)),
                       SectionText(MESSAGES(lang, "summary") \o StringOf(Len(annotations))),
                       Divider>>, cfg, zone, now)
    IN  IF Len(annotations) = 0
        THEN [channel |-> undefined,
              text    |-> MESSAGES(lang, "noDeadlines"),
              blocks  |-> <<SectionText(<<":white_check_mark:">> \o MESSAGES(lang, "noDeadlines"))>>]
        ELSE [channel |-> cfg.slackChannel,
              text    |-> MESSAGES(lang, "title") \o <<"-">> \o MESSAGES(lang, "summary")
                              \o StringOf(Len(annotations)),
              blocks  |-> shown.blocks]

\* a composer that has no zero-record case
buildSlackMessage_NoEmptyCase(annotations, cfg, zone, now) ==
    LET lang == cfg.language
    IN  [channel |-> cfg.slackChannel,
         text    |-> MESSAGES(lang, "title") \o <<"-">> \o MESSAGES(lang, "summary")
                         \o StringOf(Len(annotations)),
         blocks  |-> <<Header(HeaderTitle(lang)),
                       SectionText(MESSAGES(lang, "summary") \o StringOf(Len(annotations))),
                       Divider>>]

buildSlackMessage(annotations, cfg, zone, now) ==
    LET lang == cfg.language
        shown == DisplayLoop(annotations, 1,
                     <<Header(HeaderTitle(lang)),
                       SectionText(MESSAGES(lang, "summary") \o StringOf(Len(annotations))),
                       Divider>>, cfg, zone, now)
        remainingCount == Len(annotations) - shown.displayedCount
    IN  IF Len(annotations) = 0
        THEN [channel |-> undefined,
              text    |-> MESSAGES(lang, "noDeadlines"),
              blocks  |-> <<SectionText(<<":white_check_mark:">> \o MESSAGES(lang, "noDeadlines"))>>]
        ELSE [channel |-> cfg.slackChannel,
              text    |-> MESSAGES(lang, "title") \o <<"-">> \o MESSAGES(lang, "summary")
                              \o StringOf(Len(annotations)),
              blocks  |-> IF shown.displayedCount < Len(annotations)
                          THEN Append(shown.blocks, TruncationNotice(lang, remainingCount))
                          ELSE shown.blocks]

CallBuildSlackMessage ==
    /\ pc = "buildSlackMessage"
    /\ ret' = buildSlackMessage(filteredAnnotations, config, tz, today)
    /\ pc' = "returned"
    /\ UNCHANGED <<config, today, tz, allAnnotations, filteredAnnotations, message, parseVars, ioVars>>

-----------------------------------------------------------------------------
(* buildSlackMessage applied to arbitrary record lists *)

MsgDescriptions == {undefined, <<>>, <<"Remove", " ", "after", " ", "v2">>}

MsgRecords ==
    {MakeAnnotation(<<"lib/a.dart">>, 1, 2025, 3, 9, d, undefined) : d \in MsgDescriptions}

InitMsg ==
    /\ pc = "buildSlackMessage"
    /\ tz = "UTC"
    /\ today = [day |-> DaysFromCivil(2025, 3, 9), hour |-> 0]
    /\ config \in {[DefaultConfig EXCEPT !.language = l, !.slackChannel = <<"#dev">>] :
                      l \in {"en", "ja"}}
    /\ allAnnotations = <<>>
    /\ filteredAnnotations \in SeqsUpTo(MsgRecords, MaxMsgAnn)
    /\ message = undefined
    /\ ret = undefined
    /\ ParseIdle
    /\ RunIdle

NextMsg == CallBuildSlackMessage

SpecMsg == InitMsg /\ [][NextMsg]_vars

IsStatusBlock(b) == b.type = "section" /\ b.text # undefined /\ b.text[1] \in EmojiTokens \ {":white_check_mark:"}
IsNoticeBlock(b) == b.type = "section" /\ b.text # undefined /\ b.text[1] = "..."
IsAckBlock(b) == b.type = "section" /\ b.text # undefined /\ b.text[1] = ":white_check_mark:"

CountBlocks(blocks, P(_)) == Cardinality({k \in 1..Len(blocks) : P(blocks[k])})

\* C2: the default-layout message for a non-empty list has at most 30 blocks, the notice
\* included.
C2_AtMostMaxBlocks ==
    (pc = "returned" /\ Len(filteredAnnotations) > 0) => Len(ret.blocks) <= MAX_BLOCKS

\* C3: when fewer groups are displayed than there are records the message ends with
\* exactly one notice block, whose N is the number of records not displayed (N >= 1);
\* when every record is displayed there is no notice block.
C3_NoticeIffTruncated ==
    (pc = "returned" /\ Len(filteredAnnotations) > 0) =>
        LET blocks == ret.blocks
            groups == CountBlocks(blocks, IsStatusBlock)
            notices == CountBlocks(blocks, IsNoticeBlock)
            n == Len(filteredAnnotations) - groups
            last == blocks[Len(blocks)]
        IN  /\ groups <= Len(filteredAnnotations)
            /\ IF groups < Len(filteredAnnotations)
               THEN /\ notices = 1
                    /\ IsNoticeBlock(last)
                    /\ n >= 1
                    /\ SubSeq(last.text, 3, Len(last.text) - 1) = StringOf(n)
               ELSE notices = 0

\* seven records of which six are displayed: the notice says 1 more
C3_Witness ==
    /\ pc = "returned"
    /\ Len(filteredAnnotations) = 7
    /\ CountBlocks(ret.blocks, IsStatusBlock) = 6
    /\ IsNoticeBlock(ret.blocks[Len(ret.blocks)])
    /\ ret.blocks[Len(ret.blocks)].text[3] = "1"

\* C4: for an empty list the blocks are exactly one acknowledgement section block:
\* no header, no summary, no divider.
C4_EmptyListAcknowledges ==
    (pc = "returned" /\ Len(filteredAnnotations) = 0) =>
        /\ Len(ret.blocks) = 1
        /\ IsAckBlock(ret.blocks[1])
        /\ ret.blocks[1].text = <<":white_check_mark:">> \o MESSAGES(config.language, "noDeadlines")
        /\ \A k \in 1..Len(ret.blocks) : ret.blocks[k].type \notin {"header", "divider"}

C4_Witness ==
    /\ pc = "returned"
    /\ filteredAnnotations = <<>>
    /\ Len(ret.blocks) = 1
    /\ ret.blocks[1].type = "section"

-----------------------------------------------------------------------------
(* slack.ts: the custom template *)

\* does pattern pat occur in s at position i
MatchesAt(s, pat, i) ==
    i + Len(pat) - 1 <= Len(s) /\ SubSeq(s, i, i + Len(pat) - 1) = pat

\* the replacement text of String.prototype.replace for one match: $$ is a dollar sign,
\* $& the match, $` the text before it, $' the text after it (the patterns have no groups)
RECURSIVE GetSubstitution(_, _, _, _, _)
GetSubstitution(rep, k, matched, before, after) ==
    IF k > Len(rep) THEN <<>>
    ELSE IF rep[k] = "$" /\ k < Len(rep) /\ rep[k + 1] \in {"$", "&", "`", "'"}
    THEN (CASE rep[k + 1] = "$" -> <<"$">>
            [] rep[k + 1] = "&" -> matched
            [] rep[k + 1] = "`" -> before
            [] rep[k + 1] = "'" -> after)
         \o GetSubstitution(rep, k + 2, matched, before, after)
    ELSE <<rep[k]>> \o GetSubstitution(rep, k + 1, matched, before, after)

\* s.replace(/pat/g, rep) from position i on
RECURSIVE ReplaceFrom(_, _, _, _)
ReplaceFrom(s, pat, rep, i) ==
    IF i > Len(s) THEN <<>>
    ELSE IF MatchesAt(s, pat, i)
    THEN GetSubstitution(rep, 1, pat, SubSeq(s, 1, i - 1), SubSeq(s, i + Len(pat), Len(s)))
             \o ReplaceFrom(s, pat, rep, i + Len(pat))
    ELSE <<s[i]>> \o ReplaceFrom(s, pat, rep, i + 1)

\* template.replace(/\{\{name\}\}/g, value)
ReplacePlaceholder(template, name, value) ==
    ReplaceFrom(template, <<"{", "{", name, "}", "}">>, value, 1)

OrElse(value, default) == IF Truthy(value) THEN value ELSE default

\* the body of the loop over the records: the template rendered for one record
RenderAnnotation(template, annotation, cfg, zone, now) ==
    LET daysDiff == getDaysDifference(zone, annotation.deadlineDate, now)
        githubUrl == getGitHubUrl(cfg.repository, cfg.defaultBranch,
                                  annotation.filePath, annotation.lineNumber)
        mention == resolveSlackMention(annotation, cfg)
        t1  == ReplacePlaceholder(template, "elementName", annotation.elementName)
        t2  == ReplacePlaceholder(t1, "filePath", annotation.filePath)
        t3  == ReplacePlaceholder(t2, "lineNumber", StringOf(annotation.lineNumber))
        t4  == ReplacePlaceholder(t3, "deadline", formatDate(annotation.deadlineDate))
        t5  == ReplacePlaceholder(t4, "author", OrElse(annotation.author, <<"Unknown">>))
        t6  == ReplacePlaceholder(t5, "description", OrElse(annotation.description, <<>>))
        t7  == ReplacePlaceholder(t6, "codeBlock", annotation.codeBlock)
        t8  == ReplacePlaceholder(t7, "githubUrl", githubUrl)
        t9  == ReplacePlaceholder(t8, "daysDiff", StringOf(daysDiff))
        t10 == ReplacePlaceholder(t9, "mention", OrElse(mention, <<>>))
    IN  ReplacePlaceholder(t10, "slackMention", OrElse(annotation.slackMention, <<>>))

\* messages.join('\n\n')
RECURSIVE JoinMessages(_, _)
JoinMessages(messages, i) ==
    IF i > Len(messages) THEN <<>>
    ELSE IF i = Len(messages) THEN messages[i]
    ELSE messages[i] \o <<"\n", "\n">> \o JoinMessages(messages, i + 1)

\* no statement of the try block can throw (replace with a string pattern and the Date
\* getters never do), so the catch clause is never entered
buildCustomSlackMessage(annotations, cfg, zone, now) ==
    IF ~Truthy(cfg.customTemplate) THEN buildSlackMessage(annotations, cfg, zone, now)
    ELSE LET g1 == ReplacePlaceholder(cfg.customTemplate, "count", StringOf(Len(annotations)))
             template == ReplacePlaceholder(g1, "date", formatDate(now))
             messages == [i \in 1..Len(annotations) |->
                             RenderAnnotation(template, annotations[i], cfg, zone, now)]
         IN  [channel |-> cfg.slackChannel,
              text    |-> JoinMessages(messages, 1),
              blocks  |-> undefined]

CallBuildCustomSlackMessage ==
    /\ pc = "buildCustomSlackMessage"
    /\ ret' = buildCustomSlackMessage(filteredAnnotations, config, tz, today)
    /\ pc' = "returned"
    /\ UNCHANGED <<config, today, tz, allAnnotations, filteredAnnotations, message, parseVars, ioVars>>

-----------------------------------------------------------------------------
(* buildCustomSlackMessage applied to templates made of placeholders and text *)

Placeholder(name) == <<"{", "{", name, "}", "}">>

TplSegments ==
    {Placeholder("elementName"), Placeholder("count"), Placeholder("author"),
     Placeholder("description"), Placeholder("mention"),
     <<"{", "{", "elementName">>,
     <<"Due", ":", " ">>}

RECURSIVE Flatten(_)
Flatten(segs) == IF segs = <<>> THEN <<>> ELSE Head(segs) \o Flatten(Tail(segs))

TplRecords ==
    {[MakeAnnotation(<<"lib/a.dart">>, 3, 2025, 3, 9, d, undefined) EXCEPT !.author = au] :
        d \in {undefined, <<"Remove", " ", "it">>, <<"Refund", " ", "$", "&", " ", "fees">>},
        au \in {undefined, <<"octocat">>}}

InitCustom ==
    /\ pc = "buildCustomSlackMessage"
    /\ tz = "UTC"
    /\ today = [day |-> DaysFromCivil(2025, 3, 9), hour |-> 0]
    /\ config \in {[DefaultConfig EXCEPT !.customTemplate = Flatten(t),
                                         !.slackChannel = <<"#dev">>,
                                         !.githubToSlackMap = {<<<<"octocat">>, <<"U1">>>>}] :
                      t \in SeqsUpTo(TplSegments, MaxTplSegs)}
    /\ allAnnotations = <<>>
    /\ filteredAnnotations \in SeqsUpTo(TplRecords, MaxTplAnn)
    /\ message = undefined
    /\ ret = undefined
    /\ ParseIdle
    /\ RunIdle

NextCustom == CallBuildCustomSlackMessage

SpecCustom == InitCustom /\ [][NextCustom]_vars

\* an opening "{{" that no "}}" follows
Malformed(template) ==
    \E i \in 1..(Len(template) - 1) :
        /\ template[i] = "{" /\ template[i + 1] = "{"
        /\ \A j \in (i + 2)..(Len(template) - 1) : ~(template[j] = "}" /\ template[j + 1] = "}")

\* C5: given a malformed template buildCustomSlackMessage returns the message that
\* buildSlackMessage returns for the same records, configuration and reference date.
C5_MalformedFallsBack ==
    (pc = "returned" /\ Len(filteredAnnotations) >= 1 /\ Malformed(config.customTemplate)) =>
        ret = buildSlackMessage(filteredAnnotations, config, tz, today)

-----------------------------------------------------------------------------
(* parser.ts: the annotation pattern and its parameters.                   *)
(* Offsets into content are JavaScript's: the token at offset i is         *)
(* content[i + 1].                                                         *)

Whitespace == {" ", "\n"}

\* offset of the first token at or after offset i that is not whitespace
SkipWhitespace(s, i) == i + RunLength(s, i + 1, Whitespace)

\* offset at which the run of whitespace that ends right before offset r begins, not below q
RECURSIVE TrimBack(_, _, _)
TrimBack(s, q, r) ==
    IF r > q /\ s[r] \in Whitespace THEN TrimBack(s, q, r - 1) ELSE r

\* exec's null
NoMatch == [index |-> 0 - 1, length |-> 0, group1 |-> <<>>]

\* /@Deadline\s*\(\s*([\s\S]*?)\s*\)/ tried at offset start: a match or NoMatch
MatchDeadlineAt(s, start) ==
    IF start >= Len(s) \/ s[start + 1] # "@Deadline" THEN NoMatch
    ELSE LET open == SkipWhitespace(s, start + 1)
         IN  IF open >= Len(s) \/ s[open + 1] # "(" THEN NoMatch
             ELSE LET q == SkipWhitespace(s, open + 1)
                      close == IndexOfToken(s, ")", q + 1)
                  IN  IF close = 0 THEN NoMatch
                      ELSE [index  |-> start,
                            length |-> close - start,
                            group1 |-> SubSeq(s, q + 1, TrimBack(s, q, close - 1))]

\* DEADLINE_PATTERN.exec(content) with the pattern's lastIndex at `from`
RECURSIVE ExecDeadlinePattern(_, _)
ExecDeadlinePattern(s, from) ==
    IF from >= Len(s) THEN NoMatch
    ELSE LET m == MatchDeadlineAt(s, from)
         IN  IF m # NoMatch THEN m ELSE ExecDeadlinePattern(s, from + 1)

\* one of the three patterns of parseNamedParameter tried at offset i: the captured text
\* or undefined; kind is "'" or "\"" for a quoted value and "digits" for a number
MatchParameterAt(s, paramName, kind, i) ==
    IF i >= Len(s) \/ s[i + 1] # paramName THEN undefined
    ELSE LET colon == SkipWhitespace(s, i + 1)
         IN  IF colon >= Len(s) \/ s[colon + 1] # ":" THEN undefined
             ELSE LET v == SkipWhitespace(s, colon + 1)
                  IN  IF kind = "digits"
                      THEN IF RunLength(s, v + 1, Digits) >= 1
                           THEN SubSeq(s, v + 1, v + RunLength(s, v + 1, Digits))
                           ELSE undefined
                      ELSE IF v < Len(s) /\ s[v + 1] = kind /\ IndexOfToken(s, kind, v + 2) > 0
                           THEN SubSeq(s, v + 2, IndexOfToken(s, kind, v + 2) - 1)
                           ELSE undefined

\* content.match(pattern): the capture of the leftmost match
RECURSIVE MatchParameter(_, _, _, _)
MatchParameter(s, paramName, kind, i) ==
    IF i >= Len(s) THEN undefined
    ELSE LET c == MatchParameterAt(s, paramName, kind, i)
         IN  IF c # undefined THEN c ELSE MatchParameter(s, paramName, kind, i + 1)

parseNamedParameter(s, paramName) ==
    LET single == MatchParameter(s, paramName, "'", 0)
        double == MatchParameter(s, paramName, "\"", 0)
        number == MatchParameter(s, paramName, "digits", 0)
    IN  IF single # undefined THEN single
        ELSE IF double # undefined THEN double
        ELSE number

NaN == 0 - 1

DigitValue(t) == CHOOSE v \in 0..9 : NatToString(v) = <<t>>

RECURSIVE DigitsValue(_, _)
DigitsValue(s, n) ==
    IF n = 0 THEN 0 ELSE 10 * DigitsValue(s, n - 1) + DigitValue(s[n])

\* parseInt(str, 10) of a string without a sign: the leading digits after any
\* whitespace, NaN when there are none
parseInt(str) ==
    LET from == SkipWhitespace(str, 0)
        n == RunLength(str, from + 1, Digits)
    IN  IF n = 0 THEN NaN ELSE DigitsValue(SubSeq(str, from + 1, from + n), n)

\* content.slice(0, index).split('\n').length
getLineNumber(s, index) ==
    Cardinality({k \in 1..index : s[k] = "\n"}) + 1

-----------------------------------------------------------------------------
(* parser.ts: isInsideComment *)

\* the first loop: is offset index inside a block comment
RECURSIVE InBlockComment(_, _, _, _)
InBlockComment(s, index, i, inBlockComment) ==
    IF i >= index THEN inBlockComment
    ELSE IF ~inBlockComment /\ MatchesAt(s, <<"/", "*">>, i + 1)
    THEN InBlockComment(s, index, i + 2, TRUE)
    ELSE IF inBlockComment /\ MatchesAt(s, <<"*", "/">>, i + 1)
    THEN InBlockComment(s, index, i + 2, FALSE)
    ELSE InBlockComment(s, index, i + 1, inBlockComment)

\* the second loop: offset at which the line of offset index starts
RECURSIVE LineStart(_, _)
LineStart(s, lineStart) ==
    IF lineStart > 0 /\ s[lineStart] # "\n" THEN LineStart(s, lineStart - 1) ELSE lineStart

\* a classifier that knows line comments only
isInsideComment_LineOnly(s, index) ==
    \E k \in (LineStart(s, index) + 1)..(index - 1) : s[k] = "/" /\ s[k + 1] = "/"

\* a classifier for which block comments nest: a comment ends when as many '*/' as
\* '/*' have been read
isInsideComment_Nesting(s, index) ==
    IF Cardinality({k \in 1..(index - 1) : s[k] = "/" /\ s[k + 1] = "*"})
          > Cardinality({k \in 1..(index - 1) : s[k] = "*" /\ s[k + 1] = "/"})
    THEN TRUE
    ELSE \E k \in (LineStart(s, index) + 1)..(index - 1) : s[k] = "/" /\ s[k + 1] = "/"

\* a classifier for which a '//' anywhere before the offset comments it out
isInsideComment_AnyLine(s, index) ==
    IF InBlockComment(s, index, 0, FALSE) THEN TRUE
    ELSE \E k \in 1..(index - 1) : s[k] = "/" /\ s[k + 1] = "/"

isInsideComment(s, index) ==
    IF InBlockComment(s, index, 0, FALSE) THEN TRUE
    ELSE \E k \in (LineStart(s, index) + 1)..(index - 1) : s[k] = "/" /\ s[k + 1] = "/"

-----------------------------------------------------------------------------
(* parser.ts: the declaration patterns of extractCodeBlock.                *)
(* A pattern is a sequence of nodes; the matcher backtracks as the         *)
(* JavaScript engine does: alternatives left to right, quantifiers greedy. *)
(* An identifier or keyword is one token, a whole run of \w characters.    *)

\* the runs of \w characters the scanned texts are written with
WordTokens ==
    Digits \cup {"abstract", "class", "mixin", "extension", "enum", "static", "Future", "Stream",
                 "void", "int", "double", "bool", "String", "dynamic", "var", "final", "const",
                 "late", "get", "return", "on", "extends", "Map", "OldApi", "Legacy", "legacyFetch",
                 "legacyValue", "legacyConfig", "compute", "a", "b", "year", "month", "day", "soon"}

\* every pattern, the one-token ones too, is a sequence of nodes
In(S) == <<[t |-> "in", set |-> S]>>
NotIn(S) == <<[t |-> "notin", set |-> S]>>
Lit(tok) == In({tok})
Alt(alts) == <<[t |-> "alt", alts |-> alts]>>
Star(r) == <<[t |-> "star", body |-> r]>>
Plus(r) == r \o Star(r)
Opt(r) == Alt(<<r, <<>>>>)
Group(r) == <<[t |-> "open"]>> \o r \o <<[t |-> "close"]>>

WordChar == In(WordTokens)
Space == In(Whitespace)

\* whether token tok is in the class of a one-token node
InClass(tok, n) == IF n.t = "in" THEN tok \in n.set ELSE tok \notin n.set

\* number of tokens of s from offset i on that are in the class of node n
RECURSIVE TokenRun(_, _, _)
TokenRun(s, i, n) ==
    IF i < Len(s) /\ InClass(s[i + 1], n) THEN 1 + TokenRun(s, i + 1, n) ELSE 0

Max(K) == CHOOSE k \in K : \A j \in K : j <= k

NoCapture == [start |-> 0 - 1, end |-> 0 - 1]
Failure == [ok |-> FALSE, end |-> 0 - 1, cap |-> NoCapture]

\* the first way, in the engine's order, in which the nodes match s from offset i on;
\* cap is the span of the capturing group that holds the element name.  Every starred
\* pattern is one class of tokens, so the greedy quantifier takes the longest run of the
\* class after which the rest of the pattern still matches.
RECURSIVE MatchNodes(_, _, _, _)
MatchNodes(nodes, s, i, cap) ==
    IF Len(nodes) = 0 THEN [ok |-> TRUE, end |-> i, cap |-> cap]
    ELSE LET n == Head(nodes)
             rest == Tail(nodes)
         IN  CASE n.t = "in" ->
                     IF i < Len(s) /\ s[i + 1] \in n.set
                     THEN MatchNodes(rest, s, i + 1, cap) ELSE Failure
               [] n.t = "notin" ->
                     IF i < Len(s) /\ s[i + 1] \notin n.set
                     THEN MatchNodes(rest, s, i + 1, cap) ELSE Failure
               [] n.t = "open" -> MatchNodes(rest, s, i, [cap EXCEPT !.start = i])
               [] n.t = "close" -> MatchNodes(rest, s, i, [cap EXCEPT !.end = i])
               [] n.t = "star" ->
                     LET run == TokenRun(s, i, n.body[1])
                         Ends == {k \in 0..run : MatchNodes(rest, s, i + k, cap).ok}
                     IN  IF Ends = {} THEN Failure
                         ELSE MatchNodes(rest, s, i + Max(Ends), cap)
               [] n.t = "alt" ->
                     IF Len(n.alts) = 0 THEN Failure
                     ELSE LET first == MatchNodes(Head(n.alts) \o rest, s, i, cap)
                          IN  IF first.ok THEN first
                              ELSE MatchNodes(Alt(Tail(n.alts)) \o rest, s, i, cap)

\* the text of the capturing group, undefined when the group took no part in the match
Captured(s, m) ==
    IF m.cap.start < 0 \/ m.cap.end < 0 THEN undefined
    ELSE SubSeq(s, m.cap.start + 1, m.cap.end)

\* /^((?:abstract\s+)?class\s+(\w+)[^{]*\{)/
ClassPattern ==
    Opt(Lit("abstract") \o Plus(Space)) \o Lit("class") \o Plus(Space) \o Group(Plus(WordChar))
        \o Star(NotIn({"{"})) \o Lit("{")

\* /^(mixin\s+(\w+)[^{]*\{)/
MixinPattern ==
    Lit("mixin") \o Plus(Space) \o Group(Plus(WordChar)) \o Star(NotIn({"{"})) \o Lit("{")

\* /^(extension\s+(\w+)?[^{]*\{)/
ExtensionPattern ==
    Lit("extension") \o Plus(Space) \o Opt(Group(Plus(WordChar))) \o Star(NotIn({"{"}))
        \o Lit("{")

\* /^(enum\s+(\w+)[^{]*\{)/
EnumPattern ==
    Lit("enum") \o Plus(Space) \o Group(Plus(WordChar)) \o Star(NotIn({"{"})) \o Lit("{")

\* [\w<>,\s]
TypeChar == In(WordTokens \cup Whitespace \cup {"<", ">", ","})

\* <[^>]+>
TypeArguments == Lit("<") \o Plus(NotIn({">"})) \o Lit(">")

\* /^((?:static\s+)?(?:Future<[^>]+>|Stream<[^>]+>|void|int|double|bool|String|dynamic|var
\*    |final|const|[\w<>,\s]+)\s+(?:get\s+)?(\w+)\s*(?:<[^>]+>)?\s*\([^)]*\)[^{;]*)/
FunctionPattern ==
    Opt(Lit("static") \o Plus(Space))
        \o Alt(<<Lit("Future") \o TypeArguments, Lit("Stream") \o TypeArguments,
                 In({"void", "int", "double", "bool", "String", "dynamic", "var", "final",
                     "const"}),
                 Plus(TypeChar)>>)
        \o Plus(Space) \o Opt(Lit("get") \o Plus(Space)) \o Group(Plus(WordChar))
        \o Star(Space) \o Opt(TypeArguments) \o Star(Space)
        \o Lit("(") \o Star(NotIn({")"})) \o Lit(")") \o Star(NotIn({"{", ";"}))

\* /^((?:static\s+)?[\w<>,\s]+\s+get\s+(\w+))/
GetterPattern ==
    Opt(Lit("static") \o Plus(Space)) \o Plus(TypeChar) \o Plus(Space) \o Lit("get")
        \o Plus(Space) \o Group(Plus(WordChar))

\* /^((?:static\s+)?(?:final\s+|const\s+|var\s+|late\s+)?(?:[\w<>,\s]+\s+)?(\w+)\s*=)/
VariablePattern ==
    Opt(Lit("static") \o Plus(Space))
        \o Opt(In({"final", "const", "var", "late"}) \o Plus(Space))
        \o Opt(Plus(TypeChar) \o Plus(Space))
        \o Group(Plus(WordChar)) \o Star(Space) \o Lit("=")

\* /(?:class|mixin|extension|enum|void|Future|Stream|int|double|bool|String|dynamic|var
\*   |final|const)\s+(\w+)/
NamePattern ==
    In({"class", "mixin", "extension", "enum", "void", "Future", "Stream", "int", "double",
        "bool", "String", "dynamic", "var", "final", "const"})
        \o Plus(Space) \o Group(Plus(WordChar))

\* str.match(pattern) for a pattern anchored by ^
MatchStart(pattern, s) == MatchNodes(pattern, s, 0, NoCapture)

\* str.match(pattern) for a pattern that may match anywhere: the leftmost match
RECURSIVE MatchAnywhere(_, _, _)
MatchAnywhere(pattern, s, i) ==
    IF i > Len(s) THEN Failure
    ELSE LET m == MatchNodes(pattern, s, i, NoCapture)
         IN  IF m.ok THEN m ELSE MatchAnywhere(pattern, s, i + 1)

-----------------------------------------------------------------------------
(* parser.ts: extractCodeBlock *)

\* offset just after the token at which extractBalancedBraces breaks, Len(s) when it
\* runs to the end: the for loop from offset i with its depth and started
RECURSIVE BalancedEnd(_, _, _, _)
BalancedEnd(s, i, depth, started) ==
    IF i >= Len(s) THEN Len(s)
    ELSE IF s[i + 1] = "{" THEN BalancedEnd(s, i + 1, depth + 1, TRUE)
    ELSE IF s[i + 1] = "}"
         THEN IF started /\ depth - 1 = 0 THEN i + 1
              ELSE BalancedEnd(s, i + 1, depth - 1, started)
    ELSE BalancedEnd(s, i + 1, depth, started)

\* a scan that stops at the first closing brace
extractBalancedBraces_FirstClose(s, startIndex) ==
    LET close == IndexOfToken(s, "}", startIndex + 1)
    IN  SubSeq(s, startIndex + 1, IF close = 0 THEN Len(s) ELSE close)

extractBalancedBraces(s, startIndex) ==
    SubSeq(s, startIndex + 1, BalancedEnd(s, startIndex, 0, FALSE))

\* offset of the k-th "\n" at or after offset i, Len(s) when there are fewer
RECURSIVE NewlineOffset(_, _, _)
NewlineOffset(s, i, k) ==
    IF i >= Len(s) THEN Len(s)
    ELSE IF s[i + 1] = "\n"
         THEN IF k = 1 THEN i ELSE NewlineOffset(s, i + 1, k - 1)
         ELSE NewlineOffset(s, i + 1, k)

\* s.split('\n').slice(0, n).join('\n')
FirstLines(s, n) == SubSeq(s, 1, NewlineOffset(s, 0, n))

\* s.split('\n').length
LineCount(s) == Len(SelectSeq(s, LAMBDA t : t = "\n")) + 1

DefaultMaxLines == 15

TruncationMarker == <<"\n", " ", " ", "// ... (truncated)">>

\* a truncation that keeps one line more than maxLines
truncateCodeBlock_OneLineMore(code) ==
    IF LineCount(code) > DefaultMaxLines
    THEN FirstLines(code, DefaultMaxLines + 1) \o TruncationMarker
    ELSE code

truncateCodeBlock(code) ==
    IF LineCount(code) > DefaultMaxLines
    THEN FirstLines(code, DefaultMaxLines) \o TruncationMarker
    ELSE code

\* str.trimStart()
TrimStart(s) == SubSeq(s, SkipWhitespace(s, 0) + 1, Len(s))

\* str.startsWith(prefix)
StartsWith(s, prefix) == Len(s) >= Len(prefix) /\ SubSeq(s, 1, Len(prefix)) = prefix

\* the excerpt of a function or a getter whose signature is the first len tokens of
\* codeStart; withDefault tells the function branch, which ends a bare signature by ';'
SignatureBlock(codeStart, len, withDefault) ==
    LET signature == SubSeq(codeStart, 1, len)
        afterSignature == SubSeq(codeStart, len + 1, Len(codeStart))
        arrowEnd == IndexOfToken(afterSignature, ";", 1) - 1
    IN  IF StartsWith(TrimStart(afterSignature), <<"{">>)
        THEN signature \o extractBalancedBraces(TrimStart(afterSignature), 0)
        ELSE IF StartsWith(TrimStart(afterSignature), <<"=", ">">>)
        THEN signature \o SubSeq(afterSignature, 1, arrowEnd + 1)
        ELSE IF withDefault THEN signature \o <<";">>
        ELSE <<>>

\* the for loop of the variable branch over remaining = s from offset i on: the value of
\* endIndex after it, from its value before
RECURSIVE StatementEnd(_, _, _, _)
StatementEnd(s, i, depth, endIndex) ==
    IF i >= Len(s) THEN endIndex
    ELSE IF s[i + 1] \in {"(", "[", "{"} THEN StatementEnd(s, i + 1, depth + 1, endIndex)
    ELSE IF s[i + 1] \in {")", "]", "}"} THEN StatementEnd(s, i + 1, depth - 1, endIndex)
    ELSE IF s[i + 1] = ";" /\ depth = 0 THEN endIndex + i + 1
    ELSE StatementEnd(s, i + 1, depth, endIndex)

\* a variable branch that ends the statement at the first ';' whatever the depth
VariableBlock_FlatScan(codeStart, len) ==
    LET semi == IndexOfToken(codeStart, ";", len + 1)
    IN  SubSeq(codeStart, 1, IF semi = 0 THEN len ELSE semi)

VariableBlock(codeStart, len) ==
    SubSeq(codeStart, 1, StatementEnd(SubSeq(codeStart, len + 1, Len(codeStart)), 0, 0, len))

\* extractCodeBlock before truncateCodeBlock is applied: the kind of the first pattern
\* that matches, the excerpt and the element name
ExtractSpan(s, annotationEndIndex) ==
    LET afterAnnotation == SubSeq(s, annotationEndIndex + 1, Len(s))
        codeStart == TrimStart(afterAnnotation)
        classMatch == MatchStart(ClassPattern, codeStart)
        mixinMatch == MatchStart(MixinPattern, codeStart)
        extensionMatch == MatchStart(ExtensionPattern, codeStart)
        enumMatch == MatchStart(EnumPattern, codeStart)
        funcMatch == MatchStart(FunctionPattern, codeStart)
        getterMatch == MatchStart(GetterPattern, codeStart)
        varMatch == MatchStart(VariablePattern, codeStart)
        fallback == FirstLines(codeStart, 5)
        nameMatch == MatchAnywhere(NamePattern, fallback, 0)
        Braces(kind, name) ==
            [kind |-> kind, codeBlock |-> extractBalancedBraces(codeStart, 0), elementName |-> name]
    IN  IF classMatch.ok THEN Braces("class", Captured(codeStart, classMatch))
        ELSE IF mixinMatch.ok THEN Braces("mixin", Captured(codeStart, mixinMatch))
        ELSE IF extensionMatch.ok
        THEN Braces("extension",
                    OrElse(Captured(codeStart, extensionMatch), <<"anonymous extension">>))
        ELSE IF enumMatch.ok THEN Braces("enum", Captured(codeStart, enumMatch))
        ELSE IF funcMatch.ok
        THEN [kind |-> "function",
              codeBlock |-> SignatureBlock(codeStart, funcMatch.end, TRUE),
              elementName |-> Captured(codeStart, funcMatch)]
        ELSE IF getterMatch.ok
        THEN [kind |-> "getter",
              codeBlock |-> SignatureBlock(codeStart, getterMatch.end, FALSE),
              elementName |-> Captured(codeStart, getterMatch)]
        ELSE IF varMatch.ok
        THEN [kind |-> "variable",
              codeBlock |-> VariableBlock(codeStart, varMatch.end),
              elementName |-> Captured(codeStart, varMatch)]
        ELSE [kind |-> "fallback",
              codeBlock |-> fallback,
              elementName |-> IF nameMatch.ok THEN Captured(fallback, nameMatch)
                              ELSE <<"unknown">>]

extractCodeBlock(s, annotationEndIndex) ==
    LET span == ExtractSpan(s, annotationEndIndex)
    IN  [codeBlock |-> truncateCodeBlock(span.codeBlock), elementName |-> span.elementName]

-----------------------------------------------------------------------------
(* parser.ts: parseDartFile *)

MissingDateError(line) ==
    <<"Invalid @Deadline at line">> \o StringOf(line) \o <<": missing required date parameters">>
InvalidDateError(line) ==
    <<"Invalid @Deadline at line">> \o StringOf(line) \o <<": invalid date values">>
ReadError == <<"Failed to read file: ", "Error">>

\* a loop body that stops adding records after the first parse error
ProcessMatch_StopAfterError(res, filePath, s, match) ==
    LET yearStr  == parseNamedParameter(match.group1, "year")
        monthStr == parseNamedParameter(match.group1, "month")
        dayStr   == parseNamedParameter(match.group1, "day")
        line     == getLineNumber(s, match.index)
        block    == extractCodeBlock(s, match.index + match.length)
    IN  IF isInsideComment(s, match.index) \/ res.errors # <<>> THEN res
        ELSE IF ~Truthy(yearStr) \/ ~Truthy(monthStr) \/ ~Truthy(dayStr)
        THEN [res EXCEPT !.errors = Append(@, MissingDateError(line))]
        ELSE IF parseInt(yearStr) = NaN \/ parseInt(monthStr) = NaN \/ parseInt(dayStr) = NaN
        THEN [res EXCEPT !.errors = Append(@, InvalidDateError(line))]
        ELSE [res EXCEPT !.annotations =
                 Append(@, [MakeAnnotation(filePath, line, parseInt(yearStr),
                                           parseInt(monthStr), parseInt(dayStr),
                                           parseNamedParameter(match.group1, "description"),
                                           parseNamedParameter(match.group1, "slackMention"))
                               EXCEPT !.codeBlock = block.codeBlock,
                                      !.elementName = block.elementName])]

\* a loop body that passes over an annotation without its date parameters in silence
ProcessMatch_SilentMissing(res, filePath, s, match) ==
    LET yearStr  == parseNamedParameter(match.group1, "year")
        monthStr == parseNamedParameter(match.group1, "month")
        dayStr   == parseNamedParameter(match.group1, "day")
        line     == getLineNumber(s, match.index)
        block    == extractCodeBlock(s, match.index + match.length)
    IN  IF isInsideComment(s, match.index) THEN res
        ELSE IF ~Truthy(yearStr) \/ ~Truthy(monthStr) \/ ~Truthy(dayStr) THEN res
        ELSE IF parseInt(yearStr) = NaN \/ parseInt(monthStr) = NaN \/ parseInt(dayStr) = NaN
        THEN [res EXCEPT !.errors = Append(@, InvalidDateError(line))]
        ELSE [res EXCEPT !.annotations =
                 Append(@, [MakeAnnotation(filePath, line, parseInt(yearStr),
                                           parseInt(monthStr), parseInt(dayStr),
                                           parseNamedParameter(match.group1, "description"),
                                           parseNamedParameter(match.group1, "slackMention"))
                               EXCEPT !.codeBlock = block.codeBlock,
                                      !.elementName = block.elementName])]

\* the body of the while loop for one match: the result after it.  extractCodeBlock
\* returns for every input, so the catch clause is not entered.
ProcessMatch(res, filePath, s, match) ==
    LET yearStr  == parseNamedParameter(match.group1, "year")
        monthStr == parseNamedParameter(match.group1, "month")
        dayStr   == parseNamedParameter(match.group1, "day")
        line     == getLineNumber(s, match.index)
        block    == extractCodeBlock(s, match.index + match.length)
    IN  IF isInsideComment(s, match.index) THEN res
        ELSE IF ~Truthy(yearStr) \/ ~Truthy(monthStr) \/ ~Truthy(dayStr)
        THEN [res EXCEPT !.errors = Append(@, MissingDateError(line))]
        ELSE IF parseInt(yearStr) = NaN \/ parseInt(monthStr) = NaN \/ parseInt(dayStr) = NaN
        THEN [res EXCEPT !.errors = Append(@, InvalidDateError(line))]
        ELSE [res EXCEPT !.annotations =
                 Append(@, [MakeAnnotation(filePath, line, parseInt(yearStr),
                                           parseInt(monthStr), parseInt(dayStr),
                                           parseNamedParameter(match.group1, "description"),
                                           parseNamedParameter(match.group1, "slackMention"))
                               EXCEPT !.codeBlock = block.codeBlock,
                                      !.elementName = block.elementName])]

EmptyResult == [annotations |-> <<>>, errors |-> <<>>]

\* the while loop from the pattern's lastIndex on: the result when exec returns null
RECURSIVE ScanLoop(_, _, _, _)
ScanLoop(res, filePath, s, from) ==
    LET match == ExecDeadlinePattern(s, from)
    IN  IF match = NoMatch THEN res
        ELSE ScanLoop(ProcessMatch(res, filePath, s, match), filePath, s,
                      match.index + match.length)

\* a parser that reports nothing when the file cannot be read
parseDartFile_SilentReadFailure(filePath, text) ==
    IF text = undefined THEN EmptyResult
    ELSE ScanLoop(EmptyResult, filePath, text, 0)

\* parseDartFile as run() sees it; text = undefined when readFileSync throws
parseDartFile(filePath, text) ==
    IF text = undefined THEN [annotations |-> <<>>, errors |-> <<ReadError>>]
    ELSE ScanLoop(EmptyResult, filePath, text, 0)

-----------------------------------------------------------------------------
(* Documents: pieces of Dart text, each with what it is *)

AnnotationText(args) == <<"@Deadline", "(">> \o args \o <<")">>

YearArg == <<"year", ":", " ", "2", "0", "2", "5">>
MonthArg == <<"month", ":", " ", "3">>
Comma == <<",", " ">>

Segments ==
    {[kind |-> "record", day |-> 9,
      text |-> AnnotationText(YearArg \o Comma \o MonthArg \o Comma \o <<"day", ":", " ", "9">>)],
     [kind |-> "record", day |-> 10,
      text |-> AnnotationText(<<"\n", " ">> \o YearArg \o <<",", "\n", " ">> \o MonthArg
                                  \o <<",", "\n", " ">> \o <<"day", ":", "1", "0", ",", "\n">>)],
     [kind |-> "missing", day |-> 0,
      text |-> AnnotationText(YearArg \o Comma \o MonthArg)],
     [kind |-> "invalid", day |-> 0,
      text |-> AnnotationText(<<"year", ":", " ", "'", "soon", "'">> \o Comma \o MonthArg
                                  \o Comma \o <<"day", ":", " ", "9">>)],
     [kind |-> "open", day |-> 0, text |-> <<"/", "*">>],
     [kind |-> "open", day |-> 1, text |-> <<"/", "*", " ", "/", "*">>],
     [kind |-> "close", day |-> 0, text |-> <<"*", "/">>],
     [kind |-> "line", day |-> 0, text |-> <<"/", "/">>],
     [kind |-> "newline", day |-> 0, text |-> <<"\n">>],
     [kind |-> "code", day |-> 0, text |-> <<"class", " ", "OldApi", " ", "{", "}">>]}

AnnotationKinds == {"record", "missing", "invalid"}

\* the text of a document: its pieces separated by single spaces
RECURSIVE JoinSegments(_)
JoinSegments(segs) ==
    IF segs = <<>> THEN <<>>
    ELSE IF Len(segs) = 1 THEN segs[1].text
    ELSE segs[1].text \o <<" ">> \o JoinSegments(Tail(segs))

\* fs.readFileSync(filePath, 'utf-8'): undefined stands for the call throwing
TextOf(file) == IF file.readable THEN JoinSegments(file.segs) ELSE undefined

ParseFilePath == <<"lib/a.dart">>

-----------------------------------------------------------------------------
(* parseDartFile, one loop iteration at a time, called again and again *)

ReadFileFails ==
    /\ pc = "parseDartFile"
    /\ source' = NoFile
    /\ content' = undefined
    /\ result' = [annotations |-> <<>>, errors |-> <<ReadError>>]
    /\ pc' = "parsed"
    /\ UNCHANGED <<lastIndex, config, today, tz, allAnnotations, filteredAnnotations, message, ret, ioVars>>

ReadFileSucceeds ==
    /\ pc = "parseDartFile"
    /\ \E segs \in SeqsUpTo(Segments, MaxSegs) :
          /\ source' = [readable |-> TRUE, segs |-> segs]
          /\ content' = JoinSegments(segs)
    /\ result' = EmptyResult
    /\ lastIndex' = 0
    /\ pc' = "scan"
    /\ UNCHANGED <<config, today, tz, allAnnotations, filteredAnnotations, message, ret, ioVars>>

\* a loop whose pattern keeps its cursor where the last match ended when exec finds
\* nothing more
ScanStep_CursorKept ==
    /\ pc = "scan"
    /\ LET match == ExecDeadlinePattern(content, lastIndex)
       IN  IF match = NoMatch
           THEN /\ pc' = "parsed"
                /\ UNCHANGED <<result, lastIndex>>
           ELSE /\ lastIndex' = match.index + match.length
                /\ result' = ProcessMatch(result, ParseFilePath, content, match)
                /\ pc' = "scan"
    /\ UNCHANGED <<content, source, config, today, tz, allAnnotations, filteredAnnotations,
                   message, ret, ioVars>>

\* a loop that goes on after the excerpt extracted for the record, not after the
\* annotation
ScanStep_ResumeAfterExcerpt ==
    /\ pc = "scan"
    /\ LET match == ExecDeadlinePattern(content, lastIndex)
       IN  IF match = NoMatch
           THEN /\ lastIndex' = 0
                /\ pc' = "parsed"
                /\ UNCHANGED result
           ELSE /\ lastIndex' = match.index + match.length
                       + Len(extractCodeBlock(content, match.index + match.length).codeBlock)
                /\ result' = ProcessMatch(result, ParseFilePath, content, match)
                /\ pc' = "scan"
    /\ UNCHANGED <<content, source, config, today, tz, allAnnotations, filteredAnnotations,
                   message, ret, ioVars>>

\* one evaluation of the loop condition, DEADLINE_PATTERN.exec(content), and of the body;
\* exec sets lastIndex to the end of the match, or to 0 when it returns null
ScanStep ==
    /\ pc = "scan"
    /\ LET match == ExecDeadlinePattern(content, lastIndex)
       IN  IF match = NoMatch
           THEN /\ lastIndex' = 0
                /\ pc' = "parsed"
                /\ UNCHANGED result
           ELSE /\ lastIndex' = match.index + match.length
                /\ result' = ProcessMatch(result, ParseFilePath, content, match)
                /\ pc' = "scan"
    /\ UNCHANGED <<content, source, config, today, tz, allAnnotations, filteredAnnotations,
                   message, ret, ioVars>>

\* the caller takes the result and calls parseDartFile for its next file
ParseNextFile ==
    /\ pc = "parsed"
    /\ fileIdx + 1 < MaxFiles
    /\ fileIdx' = fileIdx + 1
    /\ pc' = "parseDartFile"
    /\ content' = undefined
    /\ result' = undefined
    /\ source' = NoFile
    /\ UNCHANGED <<lastIndex, config, today, tz, allAnnotations, filteredAnnotations, message, ret,
                   dartFiles, totalErrors, readLog, outputs, requests, failed, summaryWritten,
                   response, sentLogged, created, blameLog>>

InitParse ==
    /\ pc = "parseDartFile"
    /\ tz = "UTC"
    /\ today = [day |-> DaysFromCivil(2025, 3, 9), hour |-> 0]
    /\ config = DefaultConfig
    /\ allAnnotations = <<>>
    /\ filteredAnnotations = <<>>
    /\ message = undefined
    /\ ret = undefined
    /\ ParseIdle
    /\ RunIdle

NextParse == ReadFileFails \/ ReadFileSucceeds \/ ScanStep \/ ParseNextFile

SpecParse == InitParse /\ [][NextParse]_vars

\* the annotation occurrences of a document, in order, each with its line and with
\* whether its marker is inside a block comment or behind a "//" of its line
RECURSIVE Occurrences(_, _, _, _, _)
Occurrences(file, k, inBlock, inLine, line) ==
    IF k > Len(file) THEN <<>>
    ELSE LET seg == file[k]
             newlines == Cardinality({j \in 1..Len(seg.text) : seg.text[j] = "\n"})
             here == IF seg.kind \in AnnotationKinds
                     THEN <<[kind |-> seg.kind, day |-> seg.day, line |-> line,
                             inBlock |-> inBlock, inLine |-> inLine]>>
                     ELSE <<>>
         IN  here \o Occurrences(file, k + 1,
                         IF seg.kind = "open" THEN TRUE
                         ELSE IF seg.kind = "close" THEN FALSE ELSE inBlock,
                         IF seg.kind = "line" THEN TRUE
                         ELSE IF newlines > 0 THEN FALSE ELSE inLine,
                         line + newlines)

Uncommented(o) == ~o.inBlock /\ ~o.inLine

OccurrencesOf(file) == Occurrences(file.segs, 1, FALSE, FALSE, 1)

\* the line an error message names
ErrorLine(error) == SubSeq(error, 2, Len(error) - 1)

ItemsAtLine(res, line) ==
    Cardinality({k \in 1..Len(res.annotations) : res.annotations[k].lineNumber = line})
      + Cardinality({k \in 1..Len(res.errors) : ErrorLine(res.errors[k]) = StringOf(line)})

\* C7: an occurrence whose marker starts inside a block comment adds no record and no
\* error, whatever its arguments: the records and errors of its line are as many as the
\* occurrences of that line that are outside every comment.
C7_BlockCommentedSkipped ==
    (pc = "parsed" /\ source.readable) =>
        LET occ == OccurrencesOf(source)
        IN  \A k \in 1..Len(occ) :
               occ[k].inBlock =>
                  ItemsAtLine(result, occ[k].line)
                     = Cardinality({j \in 1..Len(occ) :
                                       occ[j].line = occ[k].line /\ Uncommented(occ[j])})

\* a block comment opened on line 1 holds, on line 2, an annotation without a day:
\* the outcome is empty
C7_Witness ==
    /\ pc = "parsed"
    /\ source.readable
    /\ [k \in 1..Len(source.segs) |-> source.segs[k].kind] = <<"open", "newline", "missing">>
    /\ result = EmptyResult

ExpectedError(o) ==
    IF o.kind = "missing" THEN MissingDateError(o.line) ELSE InvalidDateError(o.line)

RecordKey(a) == <<a.lineNumber, a.year, a.month, a.day>>

\* C8: every uncommented occurrence whose year, month or day fails to parse yields one
\* error with its line number and no record, and every uncommented well-formed
\* occurrence of the document, before or after it, yields its record.
C8_ParseErrorsDoNotStopScan ==
    (pc = "parsed" /\ source.readable) =>
        LET occ == OccurrencesOf(source)
            IsFailing(o) == Uncommented(o) /\ o.kind # "record"
            IsRecord(o) == Uncommented(o) /\ o.kind = "record"
            failing == SelectSeq(occ, IsFailing)
            wellFormed == SelectSeq(occ, IsRecord)
        IN  /\ result.errors = [k \in 1..Len(failing) |-> ExpectedError(failing[k])]
            /\ [k \in 1..Len(result.annotations) |-> RecordKey(result.annotations[k])]
                  = [k \in 1..Len(wellFormed) |-> <<wellFormed[k].line, 2025, 3, wellFormed[k].day>>]

\* a well-formed annotation, one without a day, and a well-formed one on three lines:
\* two records around one error
C8_Witness ==
    /\ pc = "parsed"
    /\ source.readable
    /\ [k \in 1..Len(source.segs) |-> source.segs[k].kind] = <<"record", "missing", "record">>
    /\ Len(result.annotations) = 2
    /\ result.errors = <<MissingDateError(1)>>

-----------------------------------------------------------------------------
(* blame.ts: enrichWithBlameInfo *)

\* what `git blame -L n,n --porcelain` gives: a failure of execSync (file not tracked,
\* no repository), or the lines of its output, each line a key and the rest of the line
BlameOutputs ==
    {[failed |-> TRUE, lines |-> <<>>],
     [failed |-> FALSE,
      lines |-> <<<<"0f3c", " ", "1", " ", "1", " ", "1">>,
                  <<"author ", "octocat">>,
                  <<"author-mail ", "<", "1", "2", "+", "octocat", "@", NoreplyHost, ">">>,
                  <<"summary ", "add deadline">>>>],
     [failed |-> FALSE,
      lines |-> <<<<"0f3c", " ", "1", " ", "1", " ", "1">>,
                  <<"author ", "Mona Lisa">>,
                  <<"author-mail ", "<", "mona", "@", "example.com", ">">>>>]}

\* line.slice(12).replace(/[<>]/g, '')
StripAngles(s) == SelectSeq(s, LAMBDA t : t \notin {"<", ">"})

\* the for loop over the lines of the output
RECURSIVE BlameLines(_, _, _)
BlameLines(lines, i, info) ==
    IF i > Len(lines) THEN info
    ELSE LET line == lines[i]
             next == IF line[1] = "author " THEN [info EXCEPT !.author = Tail(line)]
                     ELSE IF line[1] = "author-mail "
                          THEN [info EXCEPT !.authorEmail = StripAngles(Tail(line))]
                          ELSE info
         IN  BlameLines(lines, i + 1, next)

\* getBlameInfo: found = FALSE stands for null
getBlameInfo(out) ==
    IF out.failed THEN [found |-> FALSE, author |-> undefined, authorEmail |-> undefined]
    ELSE BlameLines(out.lines, 1, [found |-> TRUE, author |-> <<"Unknown">>, authorEmail |-> <<>>])

BlameResults == {getBlameInfo(out) : out \in BlameOutputs}

\* an enrichment that gives up at the first failed lookup
enrichWithBlameInfo_AbortOnFailure(annotations, blames) ==
    LET Failed == {i \in 1..Len(annotations) : ~blames[i].found}
    IN  IF Failed # {} THEN annotations
        ELSE [i \in 1..Len(annotations) |->
                 [annotations[i] EXCEPT !.author = blames[i].author,
                                        !.authorEmail = blames[i].authorEmail]]

\* annotations.map(...), blames[i] being what getBlameInfo returns for annotations[i]
enrichWithBlameInfo(annotations, blames) ==
    [i \in 1..Len(annotations) |->
        IF blames[i].found
        THEN [annotations[i] EXCEPT !.author = blames[i].author,
                                    !.authorEmail = blames[i].authorEmail]
        ELSE annotations[i]]

-----------------------------------------------------------------------------
(* index.ts: run() *)

Cwd == "/home/runner/work/"

\* a run loop that leaves the path as the scanner set it
RelativePath_Absolute(filePath) == filePath

\* path.relative(cwd, filePath) for a path below cwd
RelativePath(filePath) == IF filePath # <<>> /\ filePath[1] = Cwd THEN Tail(filePath) ELSE filePath

FileNames == <<<<Cwd, "lib/a.dart">>, <<Cwd, "lib/b.dart">>, <<Cwd, "lib/c.dart">>,
               <<Cwd, "lib/d.dart">>>>

Seg(kind, day) == CHOOSE g \in Segments : g.kind = kind /\ g.day = day

\* the files a run meets: unreadable, empty, one record due 2025-03-09, one record due
\* 2025-03-10 after an annotation without a day, one annotation inside a block comment
RunFiles ==
    {NoFile,
     [readable |-> TRUE, segs |-> <<>>],
     [readable |-> TRUE, segs |-> <<Seg("record", 9)>>],
     [readable |-> TRUE, segs |-> <<Seg("missing", 0), Seg("newline", 0), Seg("record", 10)>>],
     [readable |-> TRUE, segs |-> <<Seg("open", 0), Seg("record", 9), Seg("close", 0)>>]}

\* findDartFiles returns; the for loop starts
FindDartFiles ==
    /\ pc = "findDartFiles"
    /\ \E n \in 0..MaxFiles : dartFiles' = SubSeq(FileNames, 1, n)
    /\ pc' = "scan"
    /\ UNCHANGED <<config, today, tz, allAnnotations, filteredAnnotations, message, ret,
                   parseVars, fileIdx, totalErrors, readLog, outputs, requests, failed,
                   summaryWritten, response, sentLogged, created, blameLog>>

\* findDartFiles throws (readdirSync on a directory that cannot be listed): the catch
\* clause of run() marks the invocation failed
FindDartFilesThrows ==
    /\ pc = "findDartFiles"
    /\ failed' = <<"ENOENT">>
    /\ pc' = "done"
    /\ UNCHANGED <<config, today, tz, allAnnotations, filteredAnnotations, message, ret,
                   parseVars, dartFiles, fileIdx, totalErrors, readLog, outputs, requests,
                   summaryWritten, response, sentLogged, created, blameLog>>

\* one iteration of the for loop over dartFiles
ScanFile ==
    /\ pc = "scan"
    /\ fileIdx < Len(dartFiles)
    /\ \E file \in RunFiles :
       \E res \in {parseDartFile(dartFiles[fileIdx + 1], TextOf(file))} :
          LET annotationsWithRelativePaths ==
                  [k \in 1..Len(res.annotations) |->
                      [res.annotations[k] EXCEPT !.filePath = RelativePath(@)]]
          IN  /\ source' = file
              /\ result' = res
              /\ allAnnotations' = allAnnotations \o annotationsWithRelativePaths
              /\ created' = created \o res.annotations
              /\ totalErrors' = totalErrors + Len(res.errors)
              /\ readLog' = Append(readLog, file.readable)
    /\ fileIdx' = fileIdx + 1
    /\ UNCHANGED <<pc, config, today, tz, filteredAnnotations, message, ret, content, lastIndex,
                   dartFiles, outputs, requests, failed, summaryWritten, response,
                   sentLogged, blameLog>>

\* the for loop is left; enrichWithBlameInfo runs, one git blame per record
EnrichAnnotations ==
    /\ pc = "scan"
    /\ fileIdx = Len(dartFiles)
    /\ \E outs \in [1..Len(allAnnotations) -> BlameOutputs] :
          /\ allAnnotations' = enrichWithBlameInfo(allAnnotations,
                                    [i \in 1..Len(allAnnotations) |-> getBlameInfo(outs[i])])
          /\ blameLog' = outs
    /\ pc' = "filter"
    /\ UNCHANGED <<config, today, tz, filteredAnnotations, message, ret, parseVars, dartFiles,
                   fileIdx, totalErrors, readLog, outputs, requests, failed, summaryWritten,
                   response, sentLogged, created>>

\* the annotations_json entry of one record
JsonEntry(a) ==
    [filePath |-> a.filePath, lineNumber |-> a.lineNumber, elementName |-> a.elementName,
     deadline |-> StringOf(a.year) \o <<"-">> \o padLeft(StringOf(a.month), 2, "0")
                      \o <<"-">> \o padLeft(StringOf(a.day), 2, "0"),
     description |-> a.description, author |-> a.author]

\* a run that goes on to the notification without setting its outputs
SetOutputs_NotSet ==
    /\ pc = "outputs"
    /\ pc' = "notify"
    /\ UNCHANGED <<config, today, tz, allAnnotations, filteredAnnotations, message, ret,
                   parseVars, ioVars>>

SetOutputs ==
    /\ pc = "outputs"
    /\ outputs' = [set |-> TRUE,
                   total_annotations |-> Len(allAnnotations),
                   filtered_annotations |-> Len(filteredAnnotations),
                   annotations_json |-> [k \in 1..Len(filteredAnnotations) |->
                                            JsonEntry(filteredAnnotations[k])]]
    /\ pc' = "notify"
    /\ UNCHANGED <<config, today, tz, allAnnotations, filteredAnnotations, message, ret,
                   parseVars, dartFiles, fileIdx, totalErrors, readLog, requests, failed,
                   summaryWritten, response, sentLogged, created, blameLog>>

\* the if / else if / else over the credentials
Transport(cfg) ==
    IF Truthy(cfg.slackWebhookUrl) THEN "webhook"
    ELSE IF Truthy(cfg.slackBotToken) /\ Truthy(cfg.slackChannel) THEN "bot"
    ELSE "none"

\* nothing matches the criteria: no message is built, no notification sent
NothingToNotify ==
    /\ pc = "notify"
    /\ Len(filteredAnnotations) = 0
    /\ pc' = "summary"
    /\ UNCHANGED <<config, today, tz, allAnnotations, filteredAnnotations, message, ret,
                   parseVars, ioVars>>

\* the message is built and, with credentials, handed to fetch: run() awaits the response
SendNotification ==
    /\ pc = "notify"
    /\ Len(filteredAnnotations) > 0
    /\ message' = IF Truthy(config.customTemplate)
                  THEN buildCustomSlackMessage(filteredAnnotations, config, tz, today)
                  ELSE buildSlackMessage(filteredAnnotations, config, tz, today)
    /\ IF Transport(config) = "none"
       THEN /\ pc' = "summary"
            /\ UNCHANGED requests
       ELSE /\ pc' = "awaitResponse"
            /\ requests' = Append(requests, [via |-> Transport(config), message |-> message'])
    /\ UNCHANGED <<config, today, tz, allAnnotations, filteredAnnotations, ret, parseVars,
                   dartFiles, fileIdx, totalErrors, readLog, outputs, failed, summaryWritten,
                   response, sentLogged, created, blameLog>>

\* what fetch can give: a rejected promise (no connection), or a response with its
\* status, its body text and, for chat.postMessage, the ok and error of its JSON body
Responses ==
    {[rejected |-> TRUE, status |-> 0, text |-> <<>>, dataOk |-> FALSE, dataError |-> <<>>],
     [rejected |-> FALSE, status |-> 200, text |-> <<"ok">>, dataOk |-> TRUE, dataError |-> <<>>],
     [rejected |-> FALSE, status |-> 200, text |-> <<"{}">>, dataOk |-> FALSE,
      dataError |-> <<"channel_not_found">>],
     [rejected |-> FALSE, status |-> 500, text |-> <<"server_error">>, dataOk |-> FALSE,
      dataError |-> <<>>]}

\* response.ok
ResponseOk(r) == r.status >= 200 /\ r.status <= 299

Resolved == [threw |-> FALSE, message |-> <<>>]
Thrown(msg) == [threw |-> TRUE, message |-> msg]

\* the rejection of fetch goes through the await
FetchFailed == Thrown(<<"fetch failed">>)

sendSlackWebhook(r) ==
    IF r.rejected THEN FetchFailed
    ELSE IF ~ResponseOk(r)
         THEN Thrown(<<"Slack webhook failed: ">> \o StringOf(r.status) \o <<" ">> \o r.text)
         ELSE Resolved

\* a bot sender that does not look at the ok of the body
sendSlackBotMessage_IgnoreDataOk(r) ==
    IF r.rejected THEN FetchFailed
    ELSE IF ~ResponseOk(r)
         THEN Thrown(<<"Slack API request failed: ">> \o StringOf(r.status) \o <<" ">> \o r.text)
         ELSE Resolved

sendSlackBotMessage(r) ==
    IF r.rejected THEN FetchFailed
    ELSE IF ~ResponseOk(r)
         THEN Thrown(<<"Slack API request failed: ">> \o StringOf(r.status) \o <<" ">> \o r.text)
         ELSE IF ~r.dataOk THEN Thrown(<<"Slack API error: ">> \o r.dataError)
         ELSE Resolved

\* the awaited call of run() for the request that was issued
AwaitSend(via, r) == IF via = "webhook" THEN sendSlackWebhook(r) ELSE sendSlackBotMessage(r)

\* the send function returns: the success is logged and run() goes on to the summary
DeliverySucceeds ==
    /\ pc = "awaitResponse"
    /\ \E r \in Responses :
          /\ ~AwaitSend(requests[Len(requests)].via, r).threw
          /\ response' = r
    /\ sentLogged' = TRUE
    /\ pc' = "summary"
    /\ UNCHANGED <<config, today, tz, allAnnotations, filteredAnnotations, message, ret,
                   parseVars, dartFiles, fileIdx, totalErrors, readLog, outputs, requests,
                   failed, summaryWritten, created, blameLog>>

\* a failure that sends the request a second time
DeliveryFails_Retry ==
    /\ pc = "awaitResponse"
    /\ requests' = Append(requests, requests[Len(requests)])
    /\ pc' = "awaitResponse"
    /\ UNCHANGED <<config, today, tz, allAnnotations, filteredAnnotations, message, ret,
                   parseVars, dartFiles, fileIdx, totalErrors, readLog, outputs, failed,
                   summaryWritten, response, sentLogged, created, blameLog>>

\* the send function throws; the catch clause of run() calls core.setFailed
DeliveryFails ==
    /\ pc = "awaitResponse"
    /\ \E r \in Responses :
          LET sent == AwaitSend(requests[Len(requests)].via, r)
          IN  /\ sent.threw
              /\ response' = r
              /\ failed' = sent.message
    /\ pc' = "done"
    /\ UNCHANGED <<config, today, tz, allAnnotations, filteredAnnotations, message, ret,
                   parseVars, dartFiles, fileIdx, totalErrors, readLog, outputs, requests,
                   summaryWritten, sentLogged, created, blameLog>>

WriteSummary ==
    /\ pc = "summary"
    /\ summaryWritten' = TRUE
    /\ pc' = "done"
    /\ UNCHANGED <<config, today, tz, allAnnotations, filteredAnnotations, message, ret,
                   parseVars, dartFiles, fileIdx, totalErrors, readLog, outputs, requests,
                   failed, response, sentLogged, created, blameLog>>

RunTemplate == <<"Due", ":", " ">> \o Placeholder("elementName")

\* getConfig(): the inputs of the action
RunConfigs ==
    {[DefaultConfig EXCEPT !.slackWebhookUrl = w, !.slackBotToken = b, !.slackChannel = c,
                           !.notifyPastDeadlines = p, !.customTemplate = t] :
        w \in {<<>>, <<"https://hooks.slack.com/services/T0">>},
        b \in {<<>>, <<"xoxb-1">>},
        c \in {<<>>, <<"#dev">>},
        p \in BOOLEAN,
        t \in {<<>>, RunTemplate}}

InitRun ==
    /\ pc = "findDartFiles"
    /\ tz = "UTC"
    /\ today = [day |-> DaysFromCivil(2025, 3, 10), hour |-> 9]
    /\ config \in RunConfigs
    /\ allAnnotations = <<>>
    /\ filteredAnnotations = <<>>
    /\ message = undefined
    /\ ret = undefined
    /\ ParseIdle
    /\ RunIdle

NextRun ==
    \/ FindDartFiles
    \/ FindDartFilesThrows
    \/ ScanFile
    \/ EnrichAnnotations
    \/ FilterAnnotations
    \/ SetOutputs
    \/ NothingToNotify
    \/ SendNotification
    \/ DeliverySucceeds
    \/ DeliveryFails
    \/ WriteSummary

Spec == InitRun /\ [][NextRun]_vars

IsPrefix(a, b) == Len(a) <= Len(b) /\ SubSeq(b, 1, Len(a)) = a

RecordOccurrences(file) ==
    LET IsRecord(o) == Uncommented(o) /\ o.kind = "record"
    IN  SelectSeq(OccurrencesOf(file), IsRecord)

\* C9: when a file cannot be read parseDartFile returns no record and exactly one error,
\* and the loop of run() goes on: the records collected so far are kept, every file of
\* dartFiles is gone through, and a readable file adds one record for each of its
\* well-formed uncommented annotations.
C9_ReadFailureDoesNotStopScan ==
    [][/\ (pc = "scan" /\ fileIdx' = fileIdx + 1) =>
            /\ IsPrefix(allAnnotations, allAnnotations')
            /\ ~source'.readable =>
                  /\ result'.annotations = <<>>
                  /\ Len(result'.errors) = 1
                  /\ allAnnotations' = allAnnotations
                  /\ totalErrors' = totalErrors + 1
            /\ source'.readable =>
                  Len(allAnnotations') = Len(allAnnotations) + Len(RecordOccurrences(source'))
       /\ (pc = "scan" /\ pc' # "scan") =>
            /\ fileIdx = Len(dartFiles)
            /\ Len(readLog) = Len(dartFiles)]_vars

\* the first file could not be read, the second one gave its record
C9_Witness ==
    /\ pc = "filter"
    /\ readLog = <<FALSE, TRUE>>
    /\ totalErrors = 1
    /\ Len(allAnnotations) = 1
    /\ allAnnotations[1].filePath = <<"lib/b.dart">>

\* C10: one invocation issues at most one request: none when nothing passes the filter
\* or no credentials are configured, otherwise exactly one, by the webhook when its URL
\* is configured, by the bot token only when it is not and token and channel are; a
\* failed request is followed by no other request.
C10_AtMostOneRequest ==
    /\ Len(requests) <= 1
    /\ (pc = "done" /\ outputs.set) =>
          LET webhook == config.slackWebhookUrl # <<>>
              bot == config.slackBotToken # <<>> /\ config.slackChannel # <<>>
              nothing == Len(filteredAnnotations) = 0
          IN  /\ (nothing \/ (~webhook /\ ~bot)) => requests = <<>>
              /\ (~nothing /\ webhook) => (Len(requests) = 1 /\ requests[1].via = "webhook")
              /\ (~nothing /\ ~webhook /\ bot) => (Len(requests) = 1 /\ requests[1].via = "bot")

\* the webhook request failed while bot token and channel were configured too: the run
\* ended failed after that single request
C10_Witness ==
    /\ pc = "done"
    /\ failed # undefined
    /\ Len(requests) = 1
    /\ requests[1].via = "webhook"
    /\ config.slackBotToken # <<>> /\ config.slackChannel # <<>>

-----------------------------------------------------------------------------
(* Delivery errors *)

\* C11: a delivery error (fetch rejected, a status outside 200..299, or a chat.postMessage
\* body with ok = false) ends run() with setFailed given the error's message; the
\* notification is not logged as sent, and a notification logged as sent is never failed.
C11_DeliveryErrorIsFatal ==
    /\ (Len(requests) = 1 /\ response # NoResponse) =>
          LET via == requests[1].via
              badStatus == ~response.rejected /\ (response.status < 200 \/ response.status > 299)
              notOk == ~response.rejected /\ ~badStatus /\ via = "bot" /\ ~response.dataOk
          IN  (response.rejected \/ badStatus \/ notOk) =>
                 /\ pc = "done"
                 /\ ~sentLogged
                 /\ failed # undefined
                 /\ response.rejected => failed = <<"fetch failed">>
                 /\ (badStatus /\ via = "webhook") =>
                       failed = <<"Slack webhook failed: ">> \o StringOf(response.status)
                                    \o <<" ">> \o response.text
                 /\ (badStatus /\ via = "bot") =>
                       failed = <<"Slack API request failed: ">> \o StringOf(response.status)
                                    \o <<" ">> \o response.text
                 /\ notOk => failed = <<"Slack API error: ">> \o response.dataError
    /\ sentLogged => failed = undefined

\* chat.postMessage answered 200 with ok = false: the run ended failed with the API's error
C11_Witness ==
    /\ pc = "done"
    /\ Len(requests) = 1
    /\ requests[1].via = "bot"
    /\ response.status = 200
    /\ ~response.dataOk
    /\ failed = <<"Slack API error: ", "channel_not_found">>
    /\ ~sentLogged

-----------------------------------------------------------------------------
(* Attribution *)

\* C12: enrichWithBlameInfo returns as many records as it was given, in the same order;
\* a record whose git blame failed keeps author and authorEmail absent, every other
\* record gets the author and the mail address of its own blame output, and no other
\* field of any record changes.
C12_EnrichKeepsEveryRecord ==
    [][(pc = "scan" /\ pc' = "filter") =>
          /\ Len(allAnnotations') = Len(allAnnotations)
          /\ Len(blameLog') = Len(allAnnotations)
          /\ \A i \in 1..Len(allAnnotations) :
                LET before == allAnnotations[i]
                    after == allAnnotations'[i]
                    out == blameLog'[i]
                IN  /\ [after EXCEPT !.author = undefined, !.authorEmail = undefined] = before
                    /\ out.failed => (after.author = undefined /\ after.authorEmail = undefined)
                    /\ ~out.failed =>
                          \E k, m \in 1..Len(out.lines) :
                             /\ out.lines[k][1] = "author "
                             /\ after.author = Tail(out.lines[k])
                             /\ out.lines[m][1] = "author-mail "
                             /\ after.authorEmail = SubSeq(out.lines[m], 3, Len(out.lines[m]) - 1)]_vars

\* the lookup of the first record failed, the second record got its attribution
C12_Witness ==
    /\ pc = "filter"
    /\ Len(allAnnotations) = 2
    /\ blameLog[1].failed
    /\ ~blameLog[2].failed
    /\ allAnnotations[1].author = undefined
    /\ allAnnotations[2].author = <<"octocat">>
    /\ allAnnotations[2].authorEmail = <<"1", "2", "+", "octocat", "@", NoreplyHost>>

-----------------------------------------------------------------------------
(* Records between the scanner and the composer *)

AttributionCleared(a) == [a EXCEPT !.author = undefined, !.authorEmail = undefined]

\* every record handed to the filter and the composer is one of the list
HandedOn ==
    \A k \in 1..Len(filteredAnnotations) :
       \E i \in 1..Len(allAnnotations) : filteredAnnotations[k] = allAnnotations[i]

\* C13 as stated: between its creation by the scanner and the filter and the composer, a
\* record differs from what the scanner created in author and authorEmail only.
C13_OnlyAttributionChanges ==
    /\ Len(allAnnotations) = Len(created)
    /\ \A i \in 1..Len(allAnnotations) : AttributionCleared(allAnnotations[i]) = created[i]
    /\ HandedOn

\* C13 amended: a record differs from what the scanner created in author and authorEmail,
\* written by the enrichment step only, and in filePath, which the loop of run() replaces
\* by the path relative to the working directory when it adds the record to the list;
\* every other field keeps its creation-time value up to the filter and the composer.
C13_OnlyAttributionAndPathChange ==
    /\ [](/\ Len(allAnnotations) = Len(created)
          /\ \A i \in 1..Len(allAnnotations) :
                /\ [AttributionCleared(allAnnotations[i]) EXCEPT !.filePath = created[i].filePath]
                      = created[i]
                /\ created[i].filePath = <<Cwd>> \o allAnnotations[i].filePath
          /\ HandedOn)
    /\ [][\A i \in 1..Len(allAnnotations) :
             \/ allAnnotations'[i] = allAnnotations[i]
             \/ /\ pc = "scan" /\ pc' = "filter"
                /\ allAnnotations[i].author = undefined
                /\ allAnnotations[i].authorEmail = undefined]_vars

\* a record with its attribution and its relative path went through the filter into the
\* message that was sent
C13_Witness ==
    /\ pc = "done"
    /\ Len(created) = 1
    /\ created[1].filePath = <<Cwd, "lib/a.dart">>
    /\ allAnnotations[1].filePath = <<"lib/a.dart">>
    /\ allAnnotations[1].author = <<"octocat">>
    /\ filteredAnnotations = allAnnotations
    /\ Len(requests) = 1

-----------------------------------------------------------------------------
(* extractCodeBlock applied to the text that follows an annotation *)

\* a body of d brace pairs nested inside the outer pair
RECURSIVE Nested(_)
Nested(d) ==
    IF d = 0 THEN <<"{", "}">>
    ELSE <<"{", " ", "void", " ", "a", "(", ")", " ">> \o Nested(d - 1) \o <<" ", "}">>

\* a body of n lines, one statement on each
RECURSIVE StatementLines(_)
StatementLines(n) ==
    IF n = 0 THEN <<>> ELSE <<"a", ";", "\n">> \o StatementLines(n - 1)

\* the declarations that follow an annotation, each with the shape it was written in;
\* the expressions hold no ';' at depth zero, some hold one inside a call, a closure or a
\* collection literal
Declarations ==
    LET BlockBodies ==
            {Nested(d) : d \in 0..MaxNesting}
                \cup {<<"{", " ">> \o Nested(1) \o <<" ">> \o Nested(0) \o <<" ", "}">>,
                      <<"{", "\n">> \o StatementLines(DefaultMaxLines - 2) \o <<"}">>,
                      <<"{", "\n">> \o StatementLines(DefaultMaxLines - 1) \o <<"}">>,
                      <<"{", "\n">> \o StatementLines(DefaultMaxLines) \o <<"}">>}
        ClassHeaders ==
            {<<"class", " ", "OldApi", " ">>,
             <<"abstract", " ", "class", " ", "OldApi", " ">>,
             <<"class", " ", "OldApi", " ", "extends", " ", "Legacy", "<", "int", ">", " ">>}
        OtherHeaders ==
            {<<"mixin", " ", "Legacy", " ">>, <<"enum", " ", "Legacy", " ">>,
             <<"extension", " ", "Legacy", " ", "on", " ", "String", " ">>,
             <<"extension", " ", "on", " ", "String", " ">>,
             <<"extension", " ">>}
        FunctionSignatures ==
            {<<"void", " ", "legacyFetch", "(", ")">>,
             <<"static", " ", "Future", "<", "void", ">", " ", "legacyFetch",
               "(", "int", " ", "a", ")">>,
             <<"Map", "<", "String", ",", " ", "int", ">", " ", "legacyFetch", "(", ")">>}
        GetterSignatures ==
            {<<"int", " ", "get", " ", "legacyValue">>,
             <<"static", " ", "int", " ", "get", " ", "legacyValue">>}
        VariableHeads ==
            {<<"final", " ", "legacyConfig", " ", "=", " ">>,
             <<"static", " ", "const", " ", "Map", "<", "String", ",", " ", "int", ">", " ",
               "legacyConfig", " ", "=", " ">>,
             <<"legacyConfig", "=">>}
        Expressions ==
            {<<"1">>,
             <<"compute", "(", "1", ")">>,
             <<"[", "1", ",", " ", "a", "]">>,
             <<"{", "}">>,
             <<"compute", "(", "(", ")", " ", "{", " ", "a", ";", " ", "}", ")">>,
             <<"[", "(", ")", " ", "{", " ", "return", " ", "1", ";", " ", "}", "]">>}
        Arrow == <<" ", "=", ">", " ">>
    IN  {[shape |-> "class", decl |-> h \o b] : h \in ClassHeaders, b \in BlockBodies}
        \cup {[shape |-> "block", decl |-> h \o b] : h \in OtherHeaders, b \in {Nested(1)}}
        \cup {[shape |-> "blockFunction", decl |-> f \o g \o b] :
                 f \in FunctionSignatures, g \in {<<>>, <<" ">>},
                 b \in {Nested(1), <<"{", "\n">> \o StatementLines(DefaultMaxLines) \o <<"}">>}}
        \cup {[shape |-> "arrowFunction", decl |-> f \o Arrow \o e \o <<";">>] :
                 f \in FunctionSignatures, e \in Expressions}
        \cup {[shape |-> "bareFunction", decl |-> f \o e] :
                 f \in FunctionSignatures, e \in {<<>>, <<";">>}}
        \cup {[shape |-> "blockGetter", decl |-> f \o g \o Nested(d)] :
                 f \in GetterSignatures, g \in {<<>>, <<" ">>}, d \in {1}}
        \cup {[shape |-> "arrowGetter", decl |-> f \o Arrow \o e \o <<";">>] :
                 f \in GetterSignatures, e \in Expressions}
        \cup {[shape |-> "variable", decl |-> v \o e \o <<";">>] :
                 v \in VariableHeads, e \in Expressions}
        \cup {[shape |-> "other", decl |-> d] :
                 d \in {<<"OldApi", "(", ")", ";">>,
                        <<"@", "override", "\n", "void", " ", "legacyFetch", "(", ")", ";">>}}

\* each declaration with what stands between the annotation and it, and what follows it
ExtractCases ==
    {[shape |-> d.shape, gap |-> g, decl |-> d.decl, rest |-> r] :
        d \in Declarations,
        g \in {<<"\n">>, <<"\n", " ", " ">>},
        r \in {<<>>, <<"\n", "int", " ", "b", " ", "=", " ", "2", ";", "\n">>,
                <<"\n", "}", "\n">>}}

ExtractAnnotation == AnnotationText(YearArg)

\* the call of extractCodeBlock in parseDartFile, kept with the span before truncation
CallExtractCodeBlock ==
    /\ pc = "extractCodeBlock"
    /\ ret' = [span |-> ExtractSpan(content, lastIndex),
               out |-> extractCodeBlock(content, lastIndex)]
    /\ pc' = "returned"
    /\ UNCHANGED <<config, today, tz, allAnnotations, filteredAnnotations, message, content,
                   lastIndex, result, source, ioVars>>

\* exec has matched the annotation: lastIndex is the offset just after it
InitExtract ==
    /\ pc = "extractCodeBlock"
    /\ source \in ExtractCases
    /\ content = ExtractAnnotation \o source.gap \o source.decl \o source.rest
    /\ lastIndex = Len(ExtractAnnotation)
    /\ result = undefined
    /\ ret = undefined
    /\ config = DefaultConfig
    /\ tz = "UTC"
    /\ today = [day |-> DaysFromCivil(2025, 3, 10), hour |-> 9]
    /\ allAnnotations = <<>>
    /\ filteredAnnotations = <<>>
    /\ message = undefined
    /\ RunIdle

NextExtract == CallExtractCodeBlock

SpecExtract == InitExtract /\ [][NextExtract]_vars

\* the text from the first token after the annotation that is not whitespace
TextAfterAnnotation == source.decl \o source.rest

\* the returned excerpt without the marker that truncation appended to it
WithoutMarker(code) ==
    IF Len(code) >= 1 /\ code[Len(code)] = "// ... (truncated)"
    THEN SubSeq(code, 1, Len(code) - Len(TruncationMarker))
    ELSE code

\* C14: the excerpt extractCodeBlock returns, the truncation marker set aside, is the
\* source text that follows the annotation from its first non-whitespace character on,
\* up to some point: token for token the same, none added and none left out.
C14_ExcerptIsVerbatim ==
    pc = "returned" => IsPrefix(WithoutMarker(ret.out.codeBlock), TextAfterAnnotation)

CountToken(s, tok) == Len(SelectSeq(s, LAMBDA t : t = tok))

\* C15: for a class declaration with balanced braces the span extracted before truncation
\* is the declaration itself, from its header to the closing brace that matches the first
\* opening brace, whatever is nested in the body and whatever follows the declaration.
C15_ClassSpanEndsAtMatchingBrace ==
    (pc = "returned" /\ source.shape = "class") =>
        /\ ret.span.kind = "class"
        /\ ret.span.codeBlock = source.decl
        /\ ret.span.elementName = <<"OldApi">>

\* a class whose body nests two brace pairs one inside the other, followed by a line
\* holding a closing brace
C15_Witness ==
    /\ pc = "returned"
    /\ source.shape = "class"
    /\ source.decl = <<"abstract", " ", "class", " ", "OldApi", " ">> \o Nested(2)
    /\ source.rest = <<"\n", "}", "\n">>
    /\ ret.span.codeBlock = source.decl
    /\ CountToken(ret.span.codeBlock, "}") = 3

\* openers minus closers among the tokens of s
RECURSIVE NestingDepth(_)
NestingDepth(s) ==
    IF Len(s) = 0 THEN 0
    ELSE NestingDepth(SubSeq(s, 1, Len(s) - 1))
            + (IF s[Len(s)] \in {"(", "[", "{"} THEN 1
               ELSE IF s[Len(s)] \in {")", "]", "}"} THEN 0 - 1
               ELSE 0)

\* the positions in text, after its first '=', of the ';' that stand at nesting depth zero
StatementEnds(text) ==
    LET eq == IndexOfToken(text, "=", 1)
    IN  {k \in (eq + 1)..Len(text) :
            text[k] = ";" /\ NestingDepth(SubSeq(text, eq + 1, k - 1)) = 0}

\* C20: for a declaration classified as a variable or constant initializer the span
\* extracted before truncation runs from the start of the declaration to the first ';'
\* after the '=' that stands at nesting depth zero over ( [ { and their closers, that ';'
\* included; a ';' inside a call, a closure or a collection literal does not end it.
C20_VariableEndsAtTopLevelSemicolon ==
    (pc = "returned" /\ ret.span.kind = "variable" /\ StatementEnds(TextAfterAnnotation) # {}) =>
        LET end == CHOOSE k \in StatementEnds(TextAfterAnnotation) :
                       \A j \in StatementEnds(TextAfterAnnotation) : k <= j
        IN  ret.span.codeBlock = SubSeq(TextAfterAnnotation, 1, end)

\* an initializer holding a closure with a ';' inside a list literal, followed by another
\* statement: the excerpt goes past the inner ';' and stops before the next statement
C20_Witness ==
    /\ pc = "returned"
    /\ source.shape = "variable"
    /\ ret.span.kind = "variable"
    /\ source.decl = <<"final", " ", "legacyConfig", " ", "=", " ",
                       "[", "(", ")", " ", "{", " ", "return", " ", "1", ";", " ", "}", "]", ";">>
    /\ source.rest = <<"\n", "int", " ", "b", " ", "=", " ", "2", ";", "\n">>
    /\ ret.span.codeBlock = source.decl
    /\ ret.span.elementName = <<"legacyConfig">>
    /\ CountToken(ret.span.codeBlock, ";") = 2

\* C19: for a function or a getter whose body is introduced by '=>' the span extracted
\* before truncation runs from the start of the signature through the first ';' of the
\* text, that ';' included, whatever braces, brackets or parentheses the arrow body holds.
C19_ArrowBodyEndsAtFirstSemicolon ==
    (pc = "returned" /\ source.shape \in {"arrowFunction", "arrowGetter"}) =>
        /\ ret.span.kind \in {"function", "getter"}
        /\ ret.span.codeBlock =
               SubSeq(TextAfterAnnotation, 1, IndexOfToken(TextAfterAnnotation, ";", 1))

-----------------------------------------------------------------------------
(* The formatted deadline of an annotation, in the package and in the composer *)

\* the arguments of @Deadline(year:, month:, day:) that name a day of the calendar
DeadlineTriples ==
    LET IsLeapYear(y) == (y % 4 = 0 /\ y % 100 # 0) \/ y % 400 = 0
        DaysInMonth(y, m) ==
            IF m = 2 THEN (IF IsLeapYear(y) THEN 29 ELSE 28)
            ELSE IF m \in {4, 6, 9, 11} THEN 30
            ELSE 31
    IN  {t \in [year : {1000, 1900, 2000, 2024, 2025, 9999}, month : 1..12, day : 1..31] :
            t.day <= DaysInMonth(t.year, t.month)}

\* the getter of the annotation object
CallFormattedDate ==
    /\ pc = "format"
    /\ ret' = [by |-> "formattedDate",
               text |-> formattedDate(source.year, source.month, source.day)]
    /\ pc' = "returned"
    /\ UNCHANGED <<config, today, tz, allAnnotations, filteredAnnotations, message, content,
                   lastIndex, result, source, ioVars>>

\* the composer formats the deadlineDate of the record the parser built from the arguments
CallFormatDate ==
    /\ pc = "format"
    /\ LET annotation ==
               MakeAnnotation(<<"lib", "/", "a.dart">>, 1, source.year, source.month,
                              source.day, undefined, undefined)
       IN  ret' = [by |-> "formatDate", text |-> formatDate(annotation.deadlineDate)]
    /\ pc' = "returned"
    /\ UNCHANGED <<config, today, tz, allAnnotations, filteredAnnotations, message, content,
                   lastIndex, result, source, ioVars>>

InitFormat ==
    /\ pc = "format"
    /\ source \in DeadlineTriples
    /\ content = undefined
    /\ lastIndex = 0
    /\ result = undefined
    /\ ret = undefined
    /\ config = DefaultConfig
    /\ tz \in TimeZones
    /\ today = [day |-> DaysFromCivil(2025, 3, 10), hour |-> 9]
    /\ allAnnotations = <<>>
    /\ filteredAnnotations = <<>>
    /\ message = undefined
    /\ RunIdle

NextFormat == CallFormattedDate \/ CallFormatDate

SpecFormat == InitFormat /\ [][NextFormat]_vars

\* the decimal digits of n, written over exactly w places
RECURSIVE Places(_, _)
Places(n, w) ==
    IF w = 0 THEN <<>>
    ELSE Append(Places(n \div 10, w - 1),
                <<"0", "1", "2", "3", "4", "5", "6", "7", "8", "9">>[(n % 10) + 1])

\* C16: for every day of the calendar given as a four-digit year, a month 1..12 and a
\* day of that month, the formatted deadline is the year, the month on two digits and the
\* day on two digits joined by '-', both as Deadline.formattedDate gives it and as
\* formatDate gives it for the deadlineDate of the record.
C16_FormattedDateIsZeroPadded ==
    pc = "returned" =>
        ret.text = Places(source.year, 4) \o <<"-">> \o Places(source.month, 2)
                       \o <<"-">> \o Places(source.day, 2)

\* the leap day of 2024 formatted by the composer
C16_Witness ==
    /\ pc = "returned"
    /\ ret.by = "formatDate"
    /\ source = [year |-> 2024, month |-> 2, day |-> 29]
    /\ ret.text = <<"2", "0", "2", "4", "-", "0", "2", "-", "2", "9">>

-----------------------------------------------------------------------------
(* The text a custom template renders to *)

PlaceholderNames ==
    {"count", "date", "elementName", "filePath", "lineNumber", "deadline", "author",
     "description", "codeBlock", "githubUrl", "daysDiff", "mention", "slackMention"}

\* the value a placeholder stands for, for one record of the list handed to the composer
PlaceholderValue(name, annotation) ==
    CASE name = "count" -> StringOf(Len(filteredAnnotations))
      [] name = "date" -> formatDate(today)
      [] name = "elementName" -> annotation.elementName
      [] name = "filePath" -> annotation.filePath
      [] name = "lineNumber" -> StringOf(annotation.lineNumber)
      [] name = "deadline" -> formatDate(annotation.deadlineDate)
      [] name = "author" ->
            IF Truthy(annotation.author) THEN annotation.author ELSE <<"Unknown">>
      [] name = "description" ->
            IF Truthy(annotation.description) THEN annotation.description ELSE <<>>
      [] name = "codeBlock" -> annotation.codeBlock
      [] name = "githubUrl" ->
            getGitHubUrl(config.repository, config.defaultBranch,
                         annotation.filePath, annotation.lineNumber)
      [] name = "daysDiff" -> StringOf(getDaysDifference(tz, annotation.deadlineDate, today))
      [] name = "mention" ->
            IF Truthy(resolveSlackMention(annotation, config))
            THEN resolveSlackMention(annotation, config) ELSE <<>>
      [] name = "slackMention" ->
            IF Truthy(annotation.slackMention) THEN annotation.slackMention ELSE <<>>

\* the template from position i on with each placeholder replaced by its value as it is
RECURSIVE RenderedCopy(_, _, _)
RenderedCopy(template, annotation, i) ==
    IF i > Len(template) THEN <<>>
    ELSE IF \E name \in PlaceholderNames : MatchesAt(template, Placeholder(name), i)
    THEN PlaceholderValue(template[i + 2], annotation)
             \o RenderedCopy(template, annotation, i + 5)
    ELSE <<template[i]>> \o RenderedCopy(template, annotation, i + 1)

\* C18: for a configured template and at least one record buildCustomSlackMessage returns
\* a message without blocks whose text is one rendered copy of the template for each
\* record, in the order of the records, joined by a blank line; in a copy every
\* placeholder is replaced by exactly the record's value for it ('Unknown' for an absent
\* author, nothing for an absent description or mention).
C18_TemplateRendersEveryRecord ==
    (pc = "returned" /\ Truthy(config.customTemplate) /\ Len(filteredAnnotations) >= 1) =>
        /\ ret.blocks = undefined
        /\ ret.text =
              JoinMessages([i \in 1..Len(filteredAnnotations) |->
                               RenderedCopy(config.customTemplate, filteredAnnotations[i], 1)],
                           1)

\* C17: what parseDartFile returns for a document is what the scan of that document's
\* text from its beginning gives, whatever was parsed before; the cursor of the
\* module-level pattern is back at 0 whenever a call returns and whenever one begins, so
\* nothing of one document is left over for the next.
C17_NothingCarriesOverBetweenDocuments ==
    /\ pc = "parsed" => result = parseDartFile(ParseFilePath, TextOf(source))
    /\ pc \in {"parsed", "parseDartFile"} => lastIndex = 0

\* the second document of a sequence, parsed to its end with a record found in it
C17_Witness ==
    /\ pc = "parsed"
    /\ fileIdx = 1
    /\ source.readable
    /\ Len(result.annotations) >= 1
    /\ result = parseDartFile(ParseFilePath, content)
    /\ lastIndex = 0

-----------------------------------------------------------------------------
(* The element name and the length of an excerpt *)

\* C21: for an extension declaration extractCodeBlock gives the element name
\* 'anonymous extension' when the declaration has no name ('extension on String {') and
\* the declared name when it has one.
C21_ExtensionIsNamedOrAnonymous ==
    (pc = "returned" /\ source.decl[1] = "extension") =>
        /\ ret.span.kind = "extension"
        /\ ret.out.elementName =
               IF source.decl[3] \in {"on", "{"} THEN <<"anonymous extension">>
               ELSE <<source.decl[3]>>

\* C22: the excerpt extractCodeBlock returns is the extracted text itself when that text
\* has at most 15 lines, and otherwise the first 15 lines of it followed by the one-line
\* truncation marker; so an excerpt never has more than 16 lines.
C22_ExcerptIsLineBounded ==
    pc = "returned" =>
        LET span == ret.span.codeBlock
            out == ret.out.codeBlock
        IN  /\ CountToken(span, "\n") + 1 <= 15 => out = span
            /\ CountToken(span, "\n") + 1 > 15 =>
                  \E k \in 0..(Len(span) - 1) :
                      /\ span[k + 1] = "\n"
                      /\ CountToken(SubSeq(span, 1, k), "\n") = 14
                      /\ out = SubSeq(span, 1, k) \o <<"\n", " ", " ", "// ... (truncated)">>
            /\ CountToken(out, "\n") + 1 <= 16

\* a class of 16 lines: 15 are kept and the marker is the sixteenth
C22_Witness ==
    /\ pc = "returned"
    /\ source.shape = "class"
    /\ CountToken(ret.span.codeBlock, "\n") + 1 = 16
    /\ CountToken(ret.out.codeBlock, "\n") + 1 = 16
    /\ ret.out.codeBlock[Len(ret.out.codeBlock)] = "// ... (truncated)"
    /\ ret.out.codeBlock # ret.span.codeBlock

-----------------------------------------------------------------------------
(* buildAnnotationBlocks applied to one record, for deadlines around the reference date *)

CallBuildAnnotationBlocks ==
    /\ pc = "buildAnnotationBlocks"
    /\ ret' = buildAnnotationBlocks(filteredAnnotations[1], config, tz, today)
    /\ pc' = "returned"
    /\ UNCHANGED <<config, today, tz, allAnnotations, filteredAnnotations, message, parseVars,
                   ioVars>>

InitStatus ==
    /\ pc = "buildAnnotationBlocks"
    /\ tz \in TimeZones
    /\ today \in {[day |-> DaysFromCivil(2025, 3, 9), hour |-> 0],
                  [day |-> DaysFromCivil(2025, 3, 10), hour |-> 9]}
    /\ config \in {[DefaultConfig EXCEPT !.language = l] : l \in {"en", "ja"}}
    /\ allAnnotations = <<>>
    /\ filteredAnnotations \in
          {<<MakeAnnotation(<<"lib/a.dart">>, 1, 2025, 3, d, undefined, m)>> :
              d \in 1..MaxStatusDay, m \in {undefined, <<"@channel">>}}
    /\ message = undefined
    /\ ret = undefined
    /\ ParseIdle
    /\ RunIdle

NextStatus == CallBuildAnnotationBlocks

SpecStatus == InitStatus /\ [][NextStatus]_vars

\* the dayDiff of the record the status line was built for
StatusDayDiff == getDaysDifference(tz, filteredAnnotations[1].deadlineDate, today)

StatusClass(d) ==
    IF d < 0 THEN "overdue" ELSE IF d = 0 THEN "due-today"
    ELSE IF d <= 3 THEN "approaching" ELSE "future"

\* the status line of the same record when its deadline is d days after the reference date
StatusLineFor(d) ==
    buildAnnotationBlocks([filteredAnnotations[1] EXCEPT
                              !.deadlineDate = [day |-> today.day + d, hour |-> 0]],
                          config, "UTC", [day |-> today.day, hour |-> 0])[1].text

\* the words of a status line: what is left without the marker, the numbers and the mention
StatusPhrase(line) ==
    SelectSeq(line, LAMBDA w : w \in {"deadlinePassed", "deadlineReached",
                                      "deadlineApproaching", "daysOverdue", "daysRemaining"})

\* C23, as stated: the status line is determined by the class of dayDiff among overdue,
\* due-today, approaching and future, and each class has a marker of its own and a phrase
\* of its own: a record of another class has another marker and another phrase.
C23_FourMarkersFourPhrases ==
    pc = "returned" =>
        \A d \in (0 - MaxStatusDay)..MaxStatusDay :
            IF StatusClass(d) = StatusClass(StatusDayDiff)
            THEN /\ StatusLineFor(d)[1] = ret[1].text[1]
                 /\ StatusPhrase(StatusLineFor(d)) = StatusPhrase(ret[1].text)
            ELSE /\ StatusLineFor(d)[1] # ret[1].text[1]
                 /\ StatusPhrase(StatusLineFor(d)) # StatusPhrase(ret[1].text)

\* C23, amended: the four classes of dayDiff have four fixed markers; the phrase tells
\* three cases, passed with the days overdue (dayDiff < 0), reached (dayDiff = 0) and
\* approaching with the days remaining (every dayDiff > 0, the future class included);
\* the status line begins with the marker followed by the phrase.
C23_FourMarkersThreePhrases ==
    pc = "returned" =>
        LET d == StatusDayDiff
            lang == config.language
            marker == CASE StatusClass(d) = "overdue" -> ":rotating_light:"
                        [] StatusClass(d) = "due-today" -> ":alarm_clock:"
                        [] StatusClass(d) = "approaching" -> ":warning:"
                        [] StatusClass(d) = "future" -> ":calendar:"
            phrase == IF d < 0
                      THEN <<lang, "deadlinePassed", "(", lang, "daysOverdue">>
                               \o StringOf(0 - d) \o <<")">>
                      ELSE IF d = 0 THEN <<lang, "deadlineReached">>
                      ELSE <<lang, "deadlineApproaching", "(", lang, "daysRemaining">>
                               \o StringOf(d) \o <<")">>
        IN  /\ ret[1].type = "section"
            /\ IsPrefix(<<marker, "*">> \o phrase \o <<"*">>, ret[1].text)

\* a deadline ten days ahead: the marker of the future class with the phrase that the
\* approaching class has too
C23_Witness ==
    /\ pc = "returned"
    /\ StatusDayDiff = 10
    /\ ret[1].text[1] = ":calendar:"
    /\ StatusPhrase(ret[1].text) = <<"deadlineApproaching", "daysRemaining">>
    /\ StatusPhrase(StatusLineFor(2)) = StatusPhrase(ret[1].text)
    /\ StatusLineFor(2)[1] = ":warning:"

-----------------------------------------------------------------------------
(* Comments around an annotation *)

\* a '//' stands before offset index with no line break between it and the offset
SlashesOnLine(s, index) ==
    \E k \in 1..(index - 1) :
        /\ s[k] = "/" /\ s[k + 1] = "/"
        /\ \A j \in k..index : s[j] # "\n"

\* C24: an annotation whose offset is not inside a block comment is skipped, as
\* commented, exactly when a '//' stands between the start of its own line and the
\* offset; a '//' on an earlier line does not make it commented.
C24_LineCommentOnOwnLineOnly ==
    [][LET match == ExecDeadlinePattern(content, lastIndex)
       IN  (pc = "scan" /\ match # NoMatch
               /\ ~InBlockComment(content, match.index, 0, FALSE)) =>
              /\ isInsideComment(content, match.index) <=> SlashesOnLine(content, match.index)
              /\ (result' = result) <=> SlashesOnLine(content, match.index)]_vars

\* a document with '//' on its first line and a well-formed annotation on its second:
\* the annotation gave a record
C24_Witness ==
    /\ pc = "parsed"
    /\ source.readable
    /\ Len(source.segs) = 3
    /\ source.segs[1].kind = "line"
    /\ source.segs[2].kind = "newline"
    /\ source.segs[3].kind = "record"
    /\ Len(result.annotations) = 1
    /\ result.annotations[1].lineNumber = 2

HasNewline(seg) == \E j \in 1..Len(seg.text) : seg.text[j] = "\n"

\* piece p of a document stands after a '*/' that closed a block comment, with no '/*'
\* between that '*/' and it, and with no '//' before it on its line
AfterClosedComment(segs, p) ==
    /\ \E c \in 1..(p - 1) :
          /\ segs[c].kind = "close"
          /\ \E o \in 1..(c - 1) : segs[o].kind = "open"
          /\ \A j \in (c + 1)..(p - 1) : segs[j].kind # "open"
    /\ \A q \in 1..(p - 1) :
          segs[q].kind = "line" => \E j \in (q + 1)..(p - 1) : HasNewline(segs[j])

\* C25: block comments do not nest: the first '*/' after a '/*' ends the comment, also
\* when another '/*' stood in between, so a well-formed annotation after that '*/', with
\* no '//' before it on its line, is not commented and yields its record.
C25_FirstCloseEndsBlockComment ==
    (pc = "parsed" /\ source.readable) =>
        \A p \in 1..Len(source.segs) :
            (source.segs[p].kind = "record" /\ AfterClosedComment(source.segs, p)) =>
                \E k \in 1..Len(result.annotations) :
                    /\ result.annotations[k].day = source.segs[p].day
                    /\ result.annotations[k].lineNumber =
                          1 + CountToken(JoinSegments(SubSeq(source.segs, 1, p - 1)), "\n")

\* '/* /*', then '*/', then a well-formed annotation: the annotation gave a record
C25_Witness ==
    /\ pc = "parsed"
    /\ source.readable
    /\ Len(source.segs) = 3
    /\ source.segs[1].text = <<"/", "*", " ", "/", "*">>
    /\ source.segs[2].kind = "close"
    /\ source.segs[3].kind = "record"
    /\ Len(result.annotations) = 1

-----------------------------------------------------------------------------
(* What each annotation of a document adds to the outcome *)

\* C26: in a readable document every uncommented annotation adds exactly one item to the
\* outcome, a record or an error and never both or neither, and a commented one adds
\* none; so at the end the records and the errors are together as many as the uncommented
\* annotations, line by line, and the records stand in the order of the document with
\* line numbers from 1 that never decrease.
C26_OneItemPerUncommentedAnnotation ==
    /\ [](pc = "parsed" /\ source.readable =>
             LET occ == OccurrencesOf(source)
                 uncommented == SelectSeq(occ, Uncommented)
             IN  /\ Len(result.annotations) + Len(result.errors) = Len(uncommented)
                 /\ \A k \in 1..Len(occ) :
                        ItemsAtLine(result, occ[k].line)
                           = Cardinality({j \in 1..Len(occ) :
                                             occ[j].line = occ[k].line /\ Uncommented(occ[j])})
                 /\ \A k \in 1..Len(result.annotations) :
                        /\ result.annotations[k].lineNumber >= 1
                        /\ k > 1 => result.annotations[k - 1].lineNumber
                                        <= result.annotations[k].lineNumber)
    /\ [][LET match == ExecDeadlinePattern(content, lastIndex)
              added == <<Len(result'.annotations) - Len(result.annotations),
                         Len(result'.errors) - Len(result.errors)>>
          IN  (pc = "scan" /\ match # NoMatch) =>
                 /\ IsPrefix(result.annotations, result'.annotations)
                 /\ IsPrefix(result.errors, result'.errors)
                 /\ IF isInsideComment(content, match.index)
                    THEN added = <<0, 0>>
                    ELSE added \in {<<1, 0>>, <<0, 1>>}]_vars

\* an annotation without a day, a well-formed one and one with a year that is no number:
\* one record between two errors
C26_Witness ==
    /\ pc = "parsed"
    /\ source.readable
    /\ [k \in 1..Len(source.segs) |-> source.segs[k].kind] = <<"missing", "record", "invalid">>
    /\ Len(result.annotations) = 1
    /\ Len(result.errors) = 2

-----------------------------------------------------------------------------
(* parseDartFile applied to one annotation, for the arguments it may be written with *)

\* arguments joined by commas, the ones left out skipped
RECURSIVE JoinArgs(_)
JoinArgs(args) ==
    IF args = <<>> THEN <<>>
    ELSE IF Head(args) = <<>> THEN JoinArgs(Tail(args))
    ELSE IF JoinArgs(Tail(args)) = <<>> THEN Head(args)
    ELSE Head(args) \o Comma \o JoinArgs(Tail(args))

\* the annotations: the date arguments with a description: and a slackMention: argument
\* before or after them, each with the values the arguments denote; some values hold
\* text that reads like another argument
AnnotationCases ==
    LET DescriptionArgs ==
            {[text |-> <<>>, value |-> undefined],
             [text |-> <<"description", ":", " ", "'", "Remove", " ", "it", "'">>,
              value |-> <<"Remove", " ", "it">>],
             [text |-> <<"description", ":", " ", "\"", "year", ":", " ", "'", "1", "9", "9", "9", "'", "\"">>,
              value |-> <<"year", ":", " ", "'", "1", "9", "9", "9", "'">>],
             [text |-> <<"description", ":", " ", "'", "birth", "day", ":", " ", "5", "'">>,
              value |-> <<"birth", "day", ":", " ", "5">>],
             [text |-> <<"description", ":", " ", "'", "see", " ", "slackMention", ":", " ", "\"", "@here", "\"", "'">>,
              value |-> <<"see", " ", "slackMention", ":", " ", "\"", "@here", "\"">>]}
        MentionArgs ==
            {[text |-> <<>>, value |-> undefined],
             [text |-> <<"slackMention", ":", " ", "'", "@channel", "'">>, value |-> <<"@channel">>],
             [text |-> <<"slackMention", ":", " ", "\"", "description", ":", " ", "'", "later", "'", "\"">>,
              value |-> <<"description", ":", " ", "'", "later", "'">>]}
        DayArg(d) == <<"day", ":", " ">> \o StringOf(d)
    IN  {[day |-> d, description |-> de.value, slackMention |-> m.value,
          args |-> IF first
                   THEN JoinArgs(<<de.text, m.text, YearArg, MonthArg, DayArg(d)>>)
                   ELSE JoinArgs(<<YearArg, MonthArg, DayArg(d), de.text, m.text>>)] :
            d \in {9, 10, 31}, de \in DescriptionArgs, m \in MentionArgs, first \in BOOLEAN}

CallParseAnnotation ==
    /\ pc = "parseDartFile"
    /\ ret' = parseDartFile(ParseFilePath, content)
    /\ pc' = "returned"
    /\ UNCHANGED <<config, today, tz, allAnnotations, filteredAnnotations, message, content,
                   lastIndex, result, source, ioVars>>

InitArgs ==
    /\ pc = "parseDartFile"
    /\ source \in AnnotationCases
    /\ content = AnnotationText(source.args) \o <<"\n", "class", " ", "OldApi", " ", "{", "}">>
    /\ lastIndex = 0
    /\ result = undefined
    /\ ret = undefined
    /\ config = DefaultConfig
    /\ tz = "UTC"
    /\ today = [day |-> DaysFromCivil(2025, 3, 10), hour |-> 9]
    /\ allAnnotations = <<>>
    /\ filteredAnnotations = <<>>
    /\ message = undefined
    /\ RunIdle

NextArgs == CallParseAnnotation

SpecArgs == InitArgs /\ [][NextArgs]_vars

\* C27: the year, month and day of a record are the integers of the annotation's own
\* year:, month: and day: arguments, and its description and slackMention are the values
\* of its own description: and slackMention: arguments, whatever text those values hold.
C27_ArgumentsAreParsedFromTheirOwnNames ==
    pc = "returned" =>
        /\ Len(ret.annotations) = 1
        /\ ret.errors = <<>>
        /\ ret.annotations[1].year = 2025
        /\ ret.annotations[1].month = 3
        /\ ret.annotations[1].day = source.day
        /\ ret.annotations[1].description = source.description
        /\ ret.annotations[1].slackMention = source.slackMention

-----------------------------------------------------------------------------
(* The scan loop over an annotated declaration that holds annotated members *)

\* a declaration annotated with day 9 that holds one or two members between its braces,
\* each member on lines of its own; the annotation of the k-th member has day
\* day + k - 1, and the argument lists are written without spaces
NestedDocuments ==
    LET DayArgs(d) ==
            <<"year", ":", "2", "0", "2", "5", ",", "month", ":", "3", ",", "day", ":">>
                \o StringOf(d)
        Members ==
            {[kind |-> "method", annotated |-> TRUE, commented |-> FALSE,
              before |-> <<>>,
              after |-> <<"\n", "void", " ", "legacyFetch", "(", ")", "{", "}", "\n">>],
             [kind |-> "field", annotated |-> TRUE, commented |-> FALSE,
              before |-> <<>>,
              after |-> <<" ", "final", " ", "legacyConfig", "=", "1", ";", "\n">>],
             [kind |-> "commented", annotated |-> TRUE, commented |-> TRUE,
              before |-> <<"/", "/">>,
              after |-> <<"\n", "int", " ", "b", ";", "\n">>],
             [kind |-> "plain", annotated |-> FALSE, commented |-> FALSE,
              before |-> <<"void", " ", "a", "(", ")", "{", "}", "\n">>,
              after |-> <<>>]}
        MemberText(m, d) ==
            m.before \o (IF m.annotated THEN AnnotationText(DayArgs(d)) ELSE <<>>) \o m.after
        MembersText(ms, d) ==
            MemberText(ms[1], d) \o (IF Len(ms) = 2 THEN MemberText(ms[2], d + 1) ELSE <<>>)
    IN  {[header |-> h, members |-> ms, day |-> d,
          text |-> AnnotationText(DayArgs(9)) \o <<"\n">> \o h \o <<"{", "\n">>
                      \o MembersText(ms, d) \o <<"}">>] :
            h \in {<<"class", " ", "OldApi">>, <<"mixin", " ", "Legacy">>,
                   <<"abstract", " ", "class", " ", "OldApi">>,
                   <<"extension", " ", "Legacy", " ", "on", " ", "String">>},
            ms \in {<<m>> : m \in Members} \cup {<<m, n>> : m \in Members, n \in Members},
            d \in 1..MaxMemberDay}

\* readFileSync has returned and the pattern's cursor has been reset
InitNested ==
    /\ pc = "scan"
    /\ source \in NestedDocuments
    /\ content = source.text
    /\ lastIndex = 0
    /\ result = EmptyResult
    /\ ret = undefined
    /\ config = DefaultConfig
    /\ tz = "UTC"
    /\ today = [day |-> DaysFromCivil(2025, 3, 10), hour |-> 9]
    /\ allAnnotations = <<>>
    /\ filteredAnnotations = <<>>
    /\ message = undefined
    /\ RunIdle

NextNested == ScanStep

SpecNested == InitNested /\ [][NextNested]_vars

\* the days of the members' annotations that are not commented, in order
RECURSIVE MemberDays(_, _, _)
MemberDays(members, d, k) ==
    IF k > Len(members) THEN <<>>
    ELSE (IF members[k].annotated /\ ~members[k].commented THEN <<d + k - 1>> ELSE <<>>)
            \o MemberDays(members, d, k + 1)

\* C28: the scan goes on right after the closing parenthesis of each annotation it has
\* matched, and every match starts after the one before, so none is visited twice; an
\* uncommented well-formed annotation inside the body extracted for an earlier
\* annotation yields its own record; and the loop comes to its end for every document:
\* an iteration either ends the loop or moves the cursor forward, never past the end of
\* the document, so there are at most Len(content) iterations.
C28_ScanResumesAfterAnnotation ==
    /\ [](pc = "parsed" =>
             /\ [k \in 1..Len(result.annotations) |-> result.annotations[k].day]
                   = <<9>> \o MemberDays(source.members, source.day, 1)
             /\ result.errors = <<>>
             /\ CountToken(result.annotations[1].codeBlock, "@Deadline")
                   = Len(SelectSeq(source.members, LAMBDA m : m.annotated)))
    /\ [][LET match == ExecDeadlinePattern(content, lastIndex)
          IN  (pc = "scan" /\ match # NoMatch) =>
                 /\ match.index >= lastIndex
                 /\ lastIndex' = match.index + match.length
                 /\ lastIndex' > lastIndex
                 /\ content[lastIndex'] = ")"
                 /\ lastIndex' <= Len(content)
                 /\ content[match.index + 1] = "@Deadline"]_vars
    /\ [][(pc = "scan" /\ ExecDeadlinePattern(content, lastIndex) = NoMatch) =>
             pc' = "parsed"]_vars

\* an annotated class whose body holds an annotated method and an annotated field: three
\* records, the first with an excerpt that holds the two inner annotations
C28_Witness ==
    /\ pc = "parsed"
    /\ source.header = <<"class", " ", "OldApi">>
    /\ [k \in 1..Len(source.members) |-> source.members[k].kind] = <<"method", "field">>
    /\ [k \in 1..Len(result.annotations) |-> result.annotations[k].day] = <<9, 1, 2>>
    /\ result.annotations[1].elementName = <<"OldApi">>
    /\ result.annotations[2].elementName = <<"legacyFetch">>
    /\ CountToken(result.annotations[1].codeBlock, "@Deadline") = 2

-----------------------------------------------------------------------------
(* buildSlackMessage: which records are displayed *)

\* blocks of the group of a record: status, two field sections, the description when
\* there is one, divider
GroupSize(annotation) == IF Truthy(annotation.description) THEN 5 ELSE 4

\* blocks of the header, the summary, the divider and the groups of the first k records
RECURSIVE PrefixSize(_, _)
PrefixSize(annotations, k) ==
    IF k = 0 THEN 3 ELSE PrefixSize(annotations, k - 1) + GroupSize(annotations[k])

\* the descriptions the message displays, in the order of its blocks
DisplayedDescriptions(blocks) ==
    LET shown == SelectSeq(blocks, LAMBDA b : b.type = "section" /\ b.text # undefined
                     /\ b.text[1] \notin EmojiTokens \cup {"..."}
                     /\ SubSeq(b.text, 1, Len(MESSAGES(config.language, "description")))
                            = MESSAGES(config.language, "description"))
    IN  [k \in 1..Len(shown) |->
            SubSeq(shown[k].text, Len(MESSAGES(config.language, "description")) + 1,
                   Len(shown[k].text))]

\* the descriptions of the first k records that have one
PrefixDescriptions(annotations, k) ==
    LET with == SelectSeq(SubSeq(annotations, 1, k), LAMBDA a : Truthy(a.description))
    IN  [j \in 1..Len(with) |-> with[j].description]

\* C29: the displayed groups are those of a prefix of the input list, in input order:
\* the prefix ends at the first record whose group does not fit in what is left of the
\* 30 blocks, and no later record is displayed even when its group would fit; the
\* summary block and the text state the number of input records.
C29_DisplayedRecordsAreAPrefix ==
    (pc = "returned" /\ Len(filteredAnnotations) > 0) =>
        LET blocks == ret.blocks
            n == Len(filteredAnnotations)
            groups == CountBlocks(blocks, IsStatusBlock)
            total == StringOf(n)
        IN  /\ groups <= n
            /\ PrefixSize(filteredAnnotations, groups) <= MAX_BLOCKS
            /\ groups < n => PrefixSize(filteredAnnotations, groups + 1) > MAX_BLOCKS
            /\ Len(blocks) = PrefixSize(filteredAnnotations, groups)
                                 + (IF groups < n THEN 1 ELSE 0)
            /\ DisplayedDescriptions(blocks) = PrefixDescriptions(filteredAnnotations, groups)
            /\ blocks[2].type = "section"
            /\ blocks[2].text = MESSAGES(config.language, "summary") \o total
            /\ SubSeq(ret.text, Len(ret.text) - Len(total) + 1, Len(ret.text)) = total

\* five records fill 26 blocks, the sixth has a description and does not fit, the seventh
\* has none and would fit: five groups are displayed and the summary says 7
C29_Witness ==
    /\ pc = "returned"
    /\ Len(filteredAnnotations) = 7
    /\ PrefixSize(filteredAnnotations, 5) = 26
    /\ GroupSize(filteredAnnotations[6]) = 5
    /\ GroupSize(filteredAnnotations[7]) = 4
    /\ CountBlocks(ret.blocks, IsStatusBlock) = 5
    /\ ret.blocks[2].text = MESSAGES(config.language, "summary") \o <<"7">>

-----------------------------------------------------------------------------
(* run(): outputs, delivery and the results summary *)

\* C30: the three outputs are set once, right after the filter and while no delivery
\* request has been issued, with the counts of the scanned and of the filtered list; so
\* a run that has issued a request, failed or not, has them set. The results summary is
\* written only from the step that follows a successful or a skipped delivery, never in
\* a run that failed. (A run that throws before the filter, in findDartFiles, sets no
\* output, issues no request and writes no summary.)
C30_OutputsBeforeDeliverySummaryAfter ==
    /\ [](/\ requests # <<>> => outputs.set
          /\ pc \in {"notify", "awaitResponse", "summary"} => outputs.set
          /\ (pc = "done" /\ ~outputs.set) =>
                (failed # undefined /\ requests = <<>> /\ filteredAnnotations = <<>>)
          /\ outputs.set =>
                /\ pc \notin {"findDartFiles", "scan", "filter", "outputs"}
                /\ filteredAnnotations = filterAnnotationsByDate(allAnnotations, config, tz, today)
                /\ outputs.total_annotations = Len(allAnnotations)
                /\ outputs.filtered_annotations = Len(filteredAnnotations)
                /\ Len(outputs.annotations_json) = Len(filteredAnnotations)
          /\ summaryWritten =>
                /\ outputs.set
                /\ failed = undefined
                /\ requests = <<>> \/ sentLogged
          /\ (requests # <<>> /\ ~sentLogged) => ~summaryWritten)
    /\ [][outputs' # outputs =>
             (pc = "outputs" /\ ~outputs.set /\ outputs'.set /\ requests' = <<>>)]_vars
    /\ [][requests' # requests => (outputs.set /\ ~summaryWritten)]_vars
    /\ [][summaryWritten' # summaryWritten =>
             (pc = "summary" /\ outputs.set /\ failed = undefined
                 /\ (requests = <<>> \/ sentLogged))]_vars

\* the request was issued and failed: the outputs are set, with one filtered record, and
\* no summary is written
C30_Witness ==
    /\ pc = "done"
    /\ Len(requests) = 1
    /\ failed # undefined
    /\ outputs.set
    /\ outputs.filtered_annotations >= 1
    /\ outputs.total_annotations >= outputs.filtered_annotations
    /\ ~summaryWritten
====
